---- MODULE Spec2Model ----
(***************************************************************************)
(* Syncify: cross-catalog track matching (app/utils/track_matcher.py) and  *)
(* playlist synchronisation (app/services/sync_service.py).                *)
(*                                                                         *)
(* Conventions                                                             *)
(*   - Optional[X] is a sequence of length 0 (None) or 1 (the value).      *)
(*   - Strings that the code transforms (track name, artist) are sequences *)
(*     of one-character strings; other strings are opaque TLA+ strings.    *)
(*   - Confidences and scores are floats in the code; they are kept here   *)
(*     in tenths (95.0 is 950), which is exact for 0.6*r + 0.4*r' and the  *)
(*     integer adjustments with r, r' integers.                            *)
(*   - fuzz.ratio / fuzz.token_sort_ratio belong to the fuzzywuzzy         *)
(*     library: their results (0..100) for the source track under match    *)
(*     are carried by each destination candidate in its `sim` field.       *)
(***************************************************************************)
EXTENDS Integers, Sequences, FiniteSets, TLC

VARIABLES
    \* ---- TrackMatcher.match_track, one call -------------------------------
    m_source,        \* the source track handed to match_track
    m_dest,          \* how the destination service answers this call
    m_out,           \* Optional outcome of match_track (result, raised, calls)
    \* ---- SyncService.sync_playlist, one call ------------------------------
    pc,              \* position of the sync_playlist coroutine
    options,         \* the options dict
    source,          \* source service: the playlist and its tracks
    answers,         \* destination's search answers, per source track index
    dest_playlists,  \* destination service: the user's playlists
    sync_result,     \* the SyncResult object
    source_tracks,   \* local source_tracks
    destination_playlist, \* local destination_playlist (Optional)
    playlist_name,   \* local playlist_name (Optional)
    results,         \* match_all_tracks: results
    batch_i,         \* match_all_tracks: loop variable i (0-based offset)
    batch_results,   \* asyncio.gather: the finished match operations of the batch
    calls,           \* every collaborator call issued, in order
    progress,        \* every on_progress invocation, in order
    raised,          \* Optional error re-raised to the caller
    now,             \* time.time() * 1000
    \* ---- SyncService.get_sync_capabilities / validate_sync, one call -------
    v_source,        \* source service: capabilities, playlist details answer
    v_destination,   \* destination service: capabilities
    v_out,           \* Optional outcome of the call
    \* ---- callers of sync_playlist ------------------------------------------
    events,          \* stream_sync_progress: the events yielded, in order
    previous         \* Optional record of an earlier sync of the same playlist

vars == <<m_source, m_dest, m_out, pc, options, source, answers, dest_playlists,
          sync_result, source_tracks, destination_playlist, playlist_name,
          results, batch_i, batch_results, calls, progress, raised, now,
          v_source, v_destination, v_out, events, previous>>

matchVars == <<m_source, m_dest, m_out>>
validateVars == <<v_source, v_destination, v_out>>
sessionVars == <<events, previous>>
syncVars == <<pc, options, source, answers, dest_playlists, sync_result,
              source_tracks, destination_playlist, playlist_name, results,
              batch_i, batch_results, calls, progress, raised, now>>

None == <<>>
Some(x) == <<x>>
Max(a, b) == IF a >= b THEN a ELSE b
Min(a, b) == IF a <= b THEN a ELSE b
Abs(a) == IF a >= 0 THEN a ELSE 0 - a

(***************************************************************************)
(* Strings: str.lower() and str.strip()                                    *)
(***************************************************************************)
IsSpace(c) == c = " "

LowerChar(c) ==
    CASE c = "A" -> "a"
      [] c = "B" -> "b"
      [] c = "C" -> "c"
      [] c = "D" -> "d"
      [] c = "E" -> "e"
      [] c = "F" -> "f"
      [] c = "G" -> "g"
      [] c = "H" -> "h"
      [] c = "I" -> "i"
      [] c = "J" -> "j"
      [] c = "K" -> "k"
      [] c = "L" -> "l"
      [] c = "M" -> "m"
      [] c = "N" -> "n"
      [] c = "O" -> "o"
      [] c = "P" -> "p"
      [] c = "Q" -> "q"
      [] c = "R" -> "r"
      [] c = "S" -> "s"
      [] c = "T" -> "t"
      [] c = "U" -> "u"
      [] c = "V" -> "v"
      [] c = "W" -> "w"
      [] c = "X" -> "x"
      [] c = "Y" -> "y"
      [] c = "Z" -> "z"
      [] OTHER -> c

lower(s) == [i \in 1..Len(s) |-> LowerChar(s[i])]

RECURSIVE lstrip(_)
lstrip(s) == IF s # <<>> /\ IsSpace(Head(s)) THEN lstrip(Tail(s)) ELSE s

RECURSIVE rstrip(_)
rstrip(s) ==
    IF s # <<>> /\ IsSpace(s[Len(s)]) THEN rstrip(SubSeq(s, 1, Len(s) - 1)) ELSE s

strip(s) == rstrip(lstrip(s))

\* variant: the signature is built without strip()
signature_unstripped(track) ==
    lower(track.name) \o <<" ", "-", " ">> \o lower(track.artist)

\* f"{name.lower().strip()} - {artist.lower().strip()}"
signature(track) ==
    strip(lower(track.name)) \o <<" ", "-", " ">> \o strip(lower(track.artist))

(***************************************************************************)
(* Regular expressions of _clean_track_name and _clean_artist_name.        *)
(* Strings hold no line break, so `.*$` matches up to the end.             *)
(***************************************************************************)
IsDigit(c) == c \in {"0", "1", "2", "3", "4", "5", "6", "7", "8", "9"}

StartsWith(s, prefix) ==
    Len(s) >= Len(prefix) /\ SubSeq(s, 1, Len(prefix)) = prefix

\* a lower-case literal at the start of s, under re.IGNORECASE
StartsWithIgnoreCase(s, literal) == StartsWith(lower(s), literal)

StartsWithKeyword(s, keywords) ==
    \E keyword \in keywords : StartsWithIgnoreCase(s, keyword)

\* s[i - 1:]
Suffix(s, i) == SubSeq(s, i, Len(s))

\* re.sub(r'\s+', ' ', s)
RECURSIVE collapse_whitespace(_)
collapse_whitespace(s) ==
    IF s = <<>> THEN <<>>
    ELSE IF IsSpace(Head(s)) THEN <<" ">> \o collapse_whitespace(lstrip(s))
    ELSE <<Head(s)>> \o collapse_whitespace(Tail(s))

\* length of the match of \s* open [^close]* close \s* at the start of s,
\* 0 when there is none
GroupMatchLen(s, open, close) ==
    LET rest == lstrip(s)
    IN  IF rest # <<>> /\ Head(rest) = open /\ \E j \in 2..Len(rest) : rest[j] = close
        THEN LET j == CHOOSE j \in 2..Len(rest) :
                          rest[j] = close /\ \A k \in 2..(j - 1) : rest[k] # close
                 after == Suffix(rest, j + 1)
             IN  (Len(s) - Len(rest)) + j + (Len(after) - Len(lstrip(after)))
        ELSE 0

\* re.sub(r'\s*\([^)]*\)\s*', '', s), and the same with brackets: every
\* match is removed, leftmost first
RECURSIVE remove_groups(_, _, _)
remove_groups(s, open, close) ==
    IF s = <<>> THEN <<>>
    ELSE LET n == GroupMatchLen(s, open, close)
         IN  IF n > 0 THEN remove_groups(Suffix(s, n + 1), open, close)
             ELSE <<Head(s)>> \o remove_groups(Tail(s), open, close)

remaster_keywords == {<<"r", "e", "m", "a", "s", "t", "e", "r">>, <<"r", "e", "m", "a", "s", "t", "e", "r", "e", "d">>}

version_keywords ==
    remaster_keywords \cup
    {<<"r", "e", "m", "i", "x">>, <<"a", "c", "o", "u", "s", "t", "i", "c">>, <<"l", "i", "v", "e">>,
     <<"r", "a", "d", "i", "o", " ", "e", "d", "i", "t">>,
     <<"e", "x", "t", "e", "n", "d", "e", "d">>,
     <<"i", "n", "s", "t", "r", "u", "m", "e", "n", "t", "a", "l">>}

\* \s*-\s*(remaster|...|instrumental)
DashVersion(t) ==
    LET rest == lstrip(t)
    IN  /\ rest # <<>>
        /\ Head(rest) = "-"
        /\ StartsWithKeyword(lstrip(Tail(rest)), version_keywords)

\* \s*(remaster|...|instrumental)
PlainVersion(t) == StartsWithKeyword(lstrip(t), version_keywords)

\* \s*\d{4}\s*(remaster|remastered)
YearRemaster(t) ==
    LET rest == lstrip(t)
    IN  /\ Len(rest) >= 4
        /\ \A k \in 1..4 : IsDigit(rest[k])
        /\ StartsWithKeyword(lstrip(Suffix(rest, 5)), remaster_keywords)

\* whether the version pattern or the featuring pattern matches at the
\* start of t
PatternMatches(pattern, t) ==
    CASE pattern = "dash-version" -> DashVersion(t)
      [] pattern = "version" -> PlainVersion(t)
      [] pattern = "year-remaster" -> YearRemaster(t)
      [] pattern = "featuring" ->
            LET rest == lstrip(t)
            IN  \E keyword \in {<<"f", "e", "a", "t", ".">>,
                                 <<"f", "e", "a", "t", "u", "r", "i", "n", "g">>,
                                 <<"f", "t", ".">>, <<"w", "i", "t", "h">>} :
                    /\ StartsWithIgnoreCase(rest, keyword)
                    /\ Len(rest) > Len(keyword)
                    /\ IsSpace(rest[Len(keyword) + 1])

\* re.sub(pattern + r'.*$', '', s): s is cut at the leftmost position where
\* the pattern matches
CutAtFirst(s, pattern) ==
    IF \E i \in 1..Len(s) : PatternMatches(pattern, Suffix(s, i))
    THEN LET i == CHOOSE i \in 1..Len(s) :
                      /\ PatternMatches(pattern, Suffix(s, i))
                      /\ \A k \in 1..(i - 1) : ~PatternMatches(pattern, Suffix(s, k))
         IN  SubSeq(s, 1, i - 1)
    ELSE s

_clean_track_name(name) ==
    IF name = <<>> THEN <<>>
    ELSE LET no_parentheses == remove_groups(name, "(", ")")
             no_brackets == remove_groups(no_parentheses, "[", "]")
             no_version ==
                 CutAtFirst(CutAtFirst(CutAtFirst(no_brackets, "dash-version"),
                                       "version"),
                            "year-remaster")
         IN  strip(collapse_whitespace(no_version))

\* re.sub(r'^The\s+', '', artist, flags=re.IGNORECASE)
remove_the(artist) ==
    IF StartsWithIgnoreCase(artist, <<"t", "h", "e">>)
       /\ Len(artist) > 3 /\ IsSpace(artist[4])
    THEN lstrip(Suffix(artist, 4))
    ELSE artist

_clean_artist_name(artist) ==
    IF artist = <<>> THEN <<>>
    ELSE strip(collapse_whitespace(remove_the(CutAtFirst(artist, "featuring"))))

(***************************************************************************)
(* Album titles: `keyword in album_lower` and the year-hits pattern        *)
(***************************************************************************)
\* sub in s
Contains(s, sub) ==
    \E i \in 1..(Len(s) - Len(sub) + 1) : SubSeq(s, i, i + Len(sub) - 1) = sub

\* \w on a lower-cased title
IsWordChar(c) ==
    \/ IsDigit(c)
    \/ c \in {"a", "b", "c", "d", "e", "f", "g", "h", "i", "j", "k", "l", "m",
              "n", "o", "p", "q", "r", "s", "t", "u", "v", "w", "x", "y", "z", "_"}

\* the keywords both lists share
common_keywords ==
    {<<"h", "i", "t", "s">>,
     <<"g", "r", "e", "a", "t", "e", "s", "t">>,
     <<"b", "e", "s", "t", " ", "o", "f">>,
     <<"c", "o", "l", "l", "e", "c", "t", "i", "o", "n">>,
     <<"c", "o", "m", "p", "i", "l", "a", "t", "i", "o", "n">>,
     <<"a", "n", "t", "h", "o", "l", "o", "g", "y">>,
     <<"e", "s", "s", "e", "n", "t", "i", "a", "l", "s">>,
     <<"u", "l", "t", "i", "m", "a", "t", "e">>,
     <<"c", "o", "m", "p", "l", "e", "t", "e">>,
     <<"v", "a", "r", "i", "o", "u", "s", " ", "a", "r", "t", "i", "s", "t", "s">>,
     <<"s", "o", "u", "n", "d", "t", "r", "a", "c", "k">>,
     <<"t", "r", "i", "b", "u", "t", "e">>,
     <<"c", "o", "v", "e", "r", "s">>}

\* compilation_keywords of _score_isrc_candidate (with "now that's")
compilation_keywords_isrc ==
    common_keywords \cup {<<"n", "o", "w", " ", "t", "h", "a", "t", "'", "s">>}

\* compilation_keywords of _calculate_confidence (with "now")
compilation_keywords ==
    common_keywords \cup {<<"n", "o", "w">>}

\* any(keyword in album_lower for keyword in keywords)
any_keyword(album_lower, keywords) ==
    \E keyword \in keywords : Contains(album_lower, keyword)

\* re.search(r'\b(19|20)\d{2}\b.*hits', album_lower)
year_hits(album_lower) ==
    \E i \in 1..(Len(album_lower) - 3) :
        /\ SubSeq(album_lower, i, i + 1) \in {<<"1", "9">>, <<"2", "0">>}
        /\ IsDigit(album_lower[i + 2])
        /\ IsDigit(album_lower[i + 3])
        /\ i > 1 => ~IsWordChar(album_lower[i - 1])
        /\ i + 3 < Len(album_lower) => ~IsWordChar(album_lower[i + 4])
        /\ Contains(SubSeq(album_lower, i + 4, Len(album_lower)), <<"h", "i", "t", "s">>)

(***************************************************************************)
(* Tracks                                                                  *)
(***************************************************************************)
\* Track as produced by the source service.  isrc = "" and duration_ms = 0
\* stand for the falsy values (None, "", 0) the code tests with `if`.
SrcTrack(id, name, artist, album, dur, isrc) ==
    [id |-> id, name |-> name, artist |-> artist, album |-> album,
     duration_ms |-> dur, isrc |-> isrc]

\* Track as produced by the destination service, with the library
\* similarity ratios against the source track under match.
Sim(n, nt, a, at, al) ==
    [name |-> n, name_token |-> nt, artist |-> a, artist_token |-> at, album |-> al]

DstTrack(id, name, artist, album, atype, dur, sim, kw, kwIsrc, yearHits) ==
    [id |-> id, name |-> name, artist |-> artist, album |-> album,
     album_type |-> atype, duration_ms |-> dur, sim |-> sim,
     kw |-> kw, kw_isrc |-> kwIsrc, year_hits |-> yearHits]

\* the characters of the album titles in use
AlbumChars(album) ==
    CASE album = "Opera" -> <<"O", "p", "e", "r", "a">>
      [] album = "Other" -> <<"O", "t", "h", "e", "r">>
      [] album = "2011 Hits" -> <<"2", "0", "1", "1", " ", "H", "i", "t", "s">>
      [] album = "Best Of" -> <<"B", "e", "s", "t", " ", "O", "f">>
      [] album = "Greatest Hits" ->
            <<"G", "r", "e", "a", "t", "e", "s", "t", " ", "H", "i", "t", "s">>
      [] album = "A Night at the Opera" ->
            <<"A", " ", "N", "i", "g", "h", "t", " ", "a", "t", " ",
              "t", "h", "e", " ", "O", "p", "e", "r", "a">>
      [] OTHER -> <<>>

\* a destination track whose keyword tests are those of its album title
Release(id, name, artist, album, atype, dur, sim) ==
    DstTrack(id, name, artist, album, atype, dur, sim,
             any_keyword(lower(AlbumChars(album)), compilation_keywords),
             any_keyword(lower(AlbumChars(album)), compilation_keywords_isrc),
             year_hits(lower(AlbumChars(album))))

(***************************************************************************)
(* TrackMatcher                                                            *)
(***************************************************************************)
\* variant: the fuzzy strategy accepts from 80
fuzzy_threshold_80 == 80 * 10

fuzzy_threshold == 850
exact_threshold == 950

\* variant: a total above 100 is dropped to 0 instead of capped at 100
calculate_confidence_uncapped(source_track, candidate_track) ==
    LET final_name_ratio ==
            Max(candidate_track.sim.name, candidate_track.sim.name_token)
        final_artist_ratio ==
            Max(candidate_track.sim.artist, candidate_track.sim.artist_token)
        base == 6 * final_name_ratio + 4 * final_artist_ratio
        duration_diff == Abs(source_track.duration_ms - candidate_track.duration_ms)
        durationBonus ==
            IF source_track.duration_ms # 0 /\ candidate_track.duration_ms # 0
            THEN (IF duration_diff <= 2000 THEN 50
                  ELSE IF duration_diff <= 5000 THEN 20 ELSE 0)
            ELSE 0
        album_ratio == candidate_track.sim.album
        albumAdj ==
            IF source_track.album # "" /\ candidate_track.album # ""
            THEN (IF album_ratio > 90 THEN 80
                  ELSE IF album_ratio > 80 THEN 50
                  ELSE IF album_ratio > 60 THEN 20
                  ELSE IF album_ratio < 30 THEN 0 - 30 ELSE 0)
            ELSE 0
        typePenalty ==
            IF candidate_track.album_type = "compilation" THEN 0 - 100 ELSE 0
        keywordPenalty ==
            IF candidate_track.album # ""
            THEN (IF candidate_track.kw THEN 0 - 120 ELSE 0)
                 + (IF candidate_track.year_hits THEN 0 - 50 ELSE 0)
            ELSE 0
        total == base + durationBonus + albumAdj + typePenalty + keywordPenalty
    IN  IF total > 1000 THEN 0 ELSE total

\* _calculate_confidence, in tenths
_calculate_confidence(source_track, candidate_track) ==
    LET final_name_ratio ==
            Max(candidate_track.sim.name, candidate_track.sim.name_token)
        final_artist_ratio ==
            Max(candidate_track.sim.artist, candidate_track.sim.artist_token)
        base == 6 * final_name_ratio + 4 * final_artist_ratio
        duration_diff == Abs(source_track.duration_ms - candidate_track.duration_ms)
        durationBonus ==
            IF source_track.duration_ms # 0 /\ candidate_track.duration_ms # 0
            THEN (IF duration_diff <= 2000 THEN 50
                  ELSE IF duration_diff <= 5000 THEN 20 ELSE 0)
            ELSE 0
        album_ratio == candidate_track.sim.album
        albumAdj ==
            IF source_track.album # "" /\ candidate_track.album # ""
            THEN (IF album_ratio > 90 THEN 80
                  ELSE IF album_ratio > 80 THEN 50
                  ELSE IF album_ratio > 60 THEN 20
                  ELSE IF album_ratio < 30 THEN 0 - 30 ELSE 0)
            ELSE 0
        typePenalty ==
            IF candidate_track.album_type = "compilation" THEN 0 - 100 ELSE 0
        keywordPenalty ==
            IF candidate_track.album # ""
            THEN (IF candidate_track.kw THEN 0 - 120 ELSE 0)
                 + (IF candidate_track.year_hits THEN 0 - 50 ELSE 0)
            ELSE 0
    IN  Min(base + durationBonus + albumAdj + typePenalty + keywordPenalty, 1000)

\* variant: the album_type "compilation" costs nothing
score_isrc_candidate_no_type_penalty(source_track, candidate) ==
    LET albumScore ==
            IF source_track.album # "" /\ candidate.album # ""
            THEN 5 * candidate.sim.album ELSE 0
        typeScore ==
            CASE candidate.album_type = "album" -> 200
              [] candidate.album_type = "single" -> 100
              [] OTHER -> 0
        keywordScore ==
            IF candidate.album # ""
            THEN (IF candidate.kw_isrc THEN 0 - 250 ELSE 0)
                 + (IF candidate.year_hits THEN 0 - 150 ELSE 0)
            ELSE 0
        diff == Abs(source_track.duration_ms - candidate.duration_ms)
        durationScore ==
            IF source_track.duration_ms # 0 /\ candidate.duration_ms # 0
            THEN (IF diff <= 1000 THEN 50 ELSE IF diff <= 3000 THEN 20 ELSE 0)
            ELSE 0
    IN  albumScore + typeScore + keywordScore + durationScore

\* _score_isrc_candidate, in tenths
_score_isrc_candidate(source_track, candidate) ==
    LET albumScore ==
            IF source_track.album # "" /\ candidate.album # ""
            THEN 5 * candidate.sim.album ELSE 0
        typeScore ==
            CASE candidate.album_type = "album" -> 200
              [] candidate.album_type = "single" -> 100
              [] candidate.album_type = "compilation" -> 0 - 300
              [] OTHER -> 0
        keywordScore ==
            IF candidate.album # ""
            THEN (IF candidate.kw_isrc THEN 0 - 250 ELSE 0)
                 + (IF candidate.year_hits THEN 0 - 150 ELSE 0)
            ELSE 0
        diff == Abs(source_track.duration_ms - candidate.duration_ms)
        durationScore ==
            IF source_track.duration_ms # 0 /\ candidate.duration_ms # 0
            THEN (IF diff <= 1000 THEN 50 ELSE IF diff <= 3000 THEN 20 ELSE 0)
            ELSE 0
    IN  albumScore + typeScore + keywordScore + durationScore

(***************************************************************************)
(* Destination service as seen by one match_track call                     *)
(*   has_search_by_isrc : hasattr(destination_service, 'search_by_isrc')   *)
(*   isrc  : answer of search_by_isrc                                      *)
(*   exact : answer of search_track(f"{name} {artist}", limit=10)          *)
(*   fuzzy : answers of the four search_track(query, limit=20) calls       *)
(* An answer is [kind, items]: "raise" (the call raises), "list" (a list   *)
(* of tracks), and for search_by_isrc also "none" (None) and "track" (one  *)
(* Track object that is not wrapped in a list).                            *)
(***************************************************************************)
Raise == [kind |-> "raise", items |-> <<>>]
List(items) == [kind |-> "list", items |-> items]
NoneAnswer == [kind |-> "none", items |-> <<>>]
OneTrack(t) == [kind |-> "track", items |-> <<t>>]

\* a collaborator call: service, operation, arguments, track IDs handed over.
\* A search is logged as <<query, limit, id of the source track it is for>>.
Call(svc, op, arg, ids) == [svc |-> svc, op |-> op, arg |-> arg, ids |-> ids]

IsrcCall(source_track) ==
    Call("destination", "search_by_isrc", <<source_track.isrc, "", source_track.id>>, <<>>)
ExactCall(source_track) ==
    Call("destination", "search_track", <<"name artist", "10", source_track.id>>, <<>>)
FuzzyQueries ==
    <<"cleaned_name cleaned_artist", "name cleaned_artist",
      "cleaned_name artist", "name">>
FuzzyCall(source_track, q) ==
    Call("destination", "search_track", <<FuzzyQueries[q], "20", source_track.id>>, <<>>)

\* outcome of a helper: the value it returns, or the exception it lets
\* escape, and the destination calls it issued
Returned(value, issued) == [raised |-> FALSE, value |-> value, calls |-> issued]
Escaped(issued) == [raised |-> TRUE, value |-> None, calls |-> issued]

\* try: ... except Exception: return None
TryExceptNone(outcome) ==
    IF outcome.raised THEN Returned(None, outcome.calls) ELSE outcome

\* for candidate in candidates: if score > best_score: ... (first maximum wins)
RECURSIVE BestIsrcCandidate(_, _, _, _, _)
BestIsrcCandidate(source_track, candidates, k, best_candidate, best_score) ==
    IF k > Len(candidates) THEN best_candidate
    ELSE LET score == _score_isrc_candidate(source_track, candidates[k])
         IN  IF best_candidate = None \/ score > best_score
             THEN BestIsrcCandidate(source_track, candidates, k + 1,
                                    Some(candidates[k]), score)
             ELSE BestIsrcCandidate(source_track, candidates, k + 1,
                                    best_candidate, best_score)

\* body of the try block of _match_by_isrc
MatchByIsrcBody(source_track, dest) ==
    IF ~dest.has_search_by_isrc THEN Returned(None, <<>>)
    ELSE LET issued == <<IsrcCall(source_track)>>
             answer == dest.isrc
         IN  CASE answer.kind = "raise" -> Escaped(issued)
               [] answer.kind = "none" -> Returned(None, issued)
               \* a Track object is truthy and has no len(): TypeError
               [] answer.kind = "track" -> Escaped(issued)
               [] OTHER ->
                    IF answer.items = <<>> THEN Returned(None, issued)
                    ELSE IF Len(answer.items) = 1
                         THEN Returned(Some(answer.items[1]), issued)
                    ELSE Returned(BestIsrcCandidate(source_track, answer.items,
                                                    1, None, 0), issued)

_match_by_isrc(source_track, dest) ==
    TryExceptNone(MatchByIsrcBody(source_track, dest))

\* for track in results: score = confidence; if score > best_score: ...
\* best is [score, match], starting from [0, None]
RECURSIVE BestByConfidence(_, _, _, _)
BestByConfidence(source_track, tracks, k, best) ==
    IF k > Len(tracks) THEN best
    ELSE LET score == _calculate_confidence(source_track, tracks[k])
         IN  IF score > best.score
             THEN BestByConfidence(source_track, tracks, k + 1,
                                   [score |-> score, match |-> Some(tracks[k])])
             ELSE BestByConfidence(source_track, tracks, k + 1, best)

NoBest == [score |-> 0, match |-> None]

\* body of the try block of _match_by_exact_search
MatchByExactSearchBody(source_track, dest) ==
    LET issued == <<ExactCall(source_track)>>
        answer == dest.exact
    IN  IF answer.kind # "list" THEN Escaped(issued)
        ELSE LET best == BestByConfidence(source_track, answer.items, 1, NoBest)
             IN  Returned(IF best.score >= exact_threshold THEN best.match ELSE None,
                          issued)

\* variant: the try/except around the exact search is missing
match_by_exact_search_unguarded(source_track, dest) ==
    MatchByExactSearchBody(source_track, dest)

_match_by_exact_search(source_track, dest) ==
    TryExceptNone(MatchByExactSearchBody(source_track, dest))

\* for query in queries: results = search_track(query, limit=20); ...
RECURSIVE FuzzyLoop(_, _, _, _, _)
FuzzyLoop(source_track, dest, q, best, issued) ==
    IF q > Len(FuzzyQueries)
    THEN Returned(IF best.score >= fuzzy_threshold THEN best.match ELSE None, issued)
    ELSE LET answer == dest.fuzzy[q]
             issuedNow == Append(issued, FuzzyCall(source_track, q))
         IN  IF answer.kind # "list" THEN Escaped(issuedNow)
             ELSE FuzzyLoop(source_track, dest, q + 1,
                            BestByConfidence(source_track, answer.items, 1, best),
                            issuedNow)

\* body of the try block of _match_by_fuzzy_search
MatchByFuzzySearchBody(source_track, dest) ==
    FuzzyLoop(source_track, dest, 1, NoBest, <<>>)

_match_by_fuzzy_search(source_track, dest) ==
    TryExceptNone(MatchByFuzzySearchBody(source_track, dest))

MatchResult(source_track, destination_track, match_confidence, match_method) ==
    [source_track |-> source_track, destination_track |-> destination_track,
     match_confidence |-> match_confidence, match_method |-> match_method]

\* what a call of match_track does: the MatchResult it returns (value), or
\* the exception that escapes it (raised), and the destination calls it issued
MatchReturned(result, issued) == [raised |-> FALSE, value |-> Some(result), calls |-> issued]

\* variant: an accepted fuzzy match is built without its match_method
MatchTrackFuzzy_NoMethod(source_track, dest, issued) ==
    LET fuzzy == _match_by_fuzzy_search(source_track, dest)
        issuedNow == issued \o fuzzy.calls
    IN  IF fuzzy.raised THEN Escaped(issuedNow)
        ELSE IF fuzzy.value # None
             THEN MatchReturned(MatchResult(source_track, fuzzy.value,
                      _calculate_confidence(source_track, fuzzy.value[1]), "None"),
                      issuedNow)
             ELSE MatchReturned(MatchResult(source_track, None, 0, "None"), issuedNow)

\* Strategy 3 and the final no-match return
MatchTrackFuzzy(source_track, dest, issued) ==
    LET fuzzy == _match_by_fuzzy_search(source_track, dest)
        issuedNow == issued \o fuzzy.calls
    IN  IF fuzzy.raised THEN Escaped(issuedNow)
        ELSE IF fuzzy.value # None
                /\ _calculate_confidence(source_track, fuzzy.value[1]) >= fuzzy_threshold
             THEN MatchReturned(MatchResult(source_track, fuzzy.value,
                      _calculate_confidence(source_track, fuzzy.value[1]), "fuzzy"),
                      issuedNow)
             ELSE MatchReturned(MatchResult(source_track, None, 0, "None"), issuedNow)

\* variant: the fuzzy search is issued although the exact strategy accepted
MatchTrackExact_FallsThrough(source_track, dest, issued) ==
    LET exact == _match_by_exact_search(source_track, dest)
    IN  IF exact.raised THEN Escaped(issued \o exact.calls)
        ELSE MatchTrackFuzzy(source_track, dest, issued \o exact.calls)

\* Strategy 2, then strategy 3
MatchTrackExact(source_track, dest, issued) ==
    LET exact == _match_by_exact_search(source_track, dest)
        issuedNow == issued \o exact.calls
    IN  IF exact.raised THEN Escaped(issuedNow)
        ELSE IF exact.value # None
                /\ _calculate_confidence(source_track, exact.value[1]) >= exact_threshold
             THEN MatchReturned(MatchResult(source_track, exact.value,
                      _calculate_confidence(source_track, exact.value[1]), "exact"),
                      issuedNow)
             ELSE MatchTrackFuzzy(source_track, dest, issuedNow)

\* match_track: strategy 1, then strategy 2, then strategy 3
match_track(source_track, dest) ==
    IF source_track.isrc # ""
    THEN LET isrc == _match_by_isrc(source_track, dest)
         IN  IF isrc.raised THEN Escaped(isrc.calls)
             ELSE IF isrc.value # None
                  THEN LET isrc_match == isrc.value[1]
                           isrc_confidence ==
                               IF source_track.album # "" /\ isrc_match.album # ""
                                  /\ isrc_match.sim.album > 80
                               THEN 1000 ELSE 950
                       IN  MatchReturned(MatchResult(source_track, isrc.value,
                                             isrc_confidence, "isrc"), isrc.calls)
                  ELSE MatchTrackExact(source_track, dest, isrc.calls)
    ELSE MatchTrackExact(source_track, dest, <<>>)

(***************************************************************************)
(* Inputs: source tracks, the destination catalog, destination answers     *)
(***************************************************************************)
SrcA == SrcTrack("s1", <<"A">>, <<"Q">>, "Opera", 200000, "ISRC1")
SrcB == SrcTrack("s2", <<"a", " ">>, <<" ", "q">>, "", 0, "")
SrcC == SrcTrack("s3", <<"B">>, <<"Q">>, "Opera", 203000, "ISRC3")

\* same recording, same album: 1000 after the cap
DstHi == Release("d1", <<"A">>, <<"Q">>, "Opera", "album", 200000,
                  Sim(100, 100, 100, 100, 100))
\* exactly at the exact threshold: 6*95 + 4*95 = 950
DstExact == Release("d2", <<"a">>, <<"q">>, "", "None", 0,
                     Sim(95, 90, 95, 95, 0))
\* between the thresholds: 6*90 + 4*85 = 880
DstFuzzy == Release("d3", <<"A", " ", "B">>, <<"Q">>, "", "single", 0,
                     Sim(70, 90, 85, 60, 0))
\* exactly at the fuzzy threshold: 6*85 + 4*85 = 850
DstEdge == Release("d4", <<"B">>, <<"Q">>, "", "None", 0,
                    Sim(85, 85, 85, 85, 0))
\* near the fuzzy threshold: 6*82 + 4*84 = 828, before the duration bonus
DstLow == Release("d5", <<"B">>, <<"A">>, "Other", "album", 201000,
                   Sim(82, 82, 84, 84, 50))
\* a compilation re-release: 1000 + 50 - 30 - 100 - 120 - 50 = 750
DstComp == Release("d6", <<"A">>, <<"Q">>, "2011 Hits", "compilation", 200500,
                    Sim(100, 100, 100, 100, 20))
\* nothing in common: 0 - 30 - 120 = -150
DstNeg == Release("d7", <<"Q">>, <<"B">>, "Best Of", "None", 0,
                   Sim(0, 0, 0, 0, 10))

Catalog == {DstHi, DstExact, DstFuzzy, DstEdge, DstLow, DstComp, DstNeg}

MatchSources == {SrcA, SrcB, SrcC}

IsrcAnswers ==
    {Raise, NoneAnswer, OneTrack(DstHi), List(<<>>), List(<<DstComp>>),
     List(<<DstComp, DstHi>>), List(<<DstFuzzy, DstLow>>)}

ExactAnswers ==
    {Raise, List(<<>>), List(<<DstHi>>), List(<<DstFuzzy, DstExact>>),
     List(<<DstFuzzy>>), List(<<DstNeg, DstComp>>)}

FuzzyAnswers ==
    {Raise, List(<<>>), List(<<DstEdge, DstFuzzy>>), List(<<DstLow, DstNeg>>)}

Dest(has, isrc, exact, fuzzy) ==
    [has_search_by_isrc |-> has, isrc |-> isrc, exact |-> exact, fuzzy |-> fuzzy]

MatchDests ==
    {Dest(TRUE, i, e, f) : i \in IsrcAnswers, e \in ExactAnswers,
                           f \in [1..4 -> FuzzyAnswers]}
    \cup {Dest(FALSE, NoneAnswer, e, f) : e \in ExactAnswers,
                                          f \in [1..4 -> FuzzyAnswers]}

(***************************************************************************)
(* Inputs of the ISRC strategy: one recording released on a compilation    *)
(* and on a studio album, for every source album and duration              *)
(***************************************************************************)
AlbumSimilarities == {0, 29, 80, 81, 100}
ReleaseDurations == {0, 200000, 201000, 203000, 210000}

GreatestHits(album_ratio, dur) ==
    Release("g1", <<"A">>, <<"Q">>, "Greatest Hits", "compilation", dur,
            Sim(100, 100, 100, 100, album_ratio))

NightAtTheOpera(album_ratio, dur) ==
    Release("n1", <<"A">>, <<"Q">>, "A Night at the Opera", "album", dur,
            Sim(100, 100, 100, 100, album_ratio))

IsrcSources ==
    {SrcTrack("s4", <<"A">>, <<"Q">>, album, dur, "ISRC4") :
        album \in {"", "Opera", "Greatest Hits"}, dur \in {0, 200000}}

\* the two releases, in either order
TwoReleaseLists ==
    UNION {{<<GreatestHits(a, d), NightAtTheOpera(b, e)>>,
            <<NightAtTheOpera(b, e), GreatestHits(a, d)>>} :
              a \in AlbumSimilarities, b \in AlbumSimilarities,
              d \in ReleaseDurations, e \in ReleaseDurations}

IsrcDests ==
    {Dest(TRUE, List(pair), Raise, [q \in 1..4 |-> Raise]) : pair \in TwoReleaseLists}

(***************************************************************************)
(* SyncResult                                                              *)
(***************************************************************************)
SyncResult(source_service, destination_service, start_time, sync_mode) ==
    [source_playlist |-> None, destination_playlist |-> None,
     source_service |-> source_service,
     destination_service |-> destination_service,
     total_tracks |-> 0, matched_tracks |-> 0, unmatched_tracks |-> <<>>,
     errors |-> <<>>, start_time |-> start_time, end_time |-> None,
     sync_mode |-> sync_mode, duration |-> None]

NoOptions ==
    [sync_mode |-> None, playlist_name |-> None, update_existing |-> FALSE,
     on_progress |-> FALSE]

NoSource == [service_name |-> "", playlist |-> None, tracks |-> <<>>]

\* what get_capabilities() returns, or that it raises.  maxPlaylistTracks
\* and batchSize are Optional: the dict may lack the key
Capabilities(raises, canRead, canWrite, canCreatePlaylists, supportsISRC, maxPlaylistTracks, batchSize) ==
    [raises |-> raises, canRead |-> canRead, canWrite |-> canWrite,
     canCreatePlaylists |-> canCreatePlaylists, supportsISRC |-> supportsISRC,
     maxPlaylistTracks |-> maxPlaylistTracks, batchSize |-> batchSize]

\* get_capabilities of SpotifyService and of AppleMusicService
ShippedCapabilities ==
    Capabilities(FALSE, TRUE, TRUE, TRUE, TRUE, Some(10000), Some(100))

\* the validation variables while no validation is running
ValidateIdle ==
    /\ v_source = [capabilities |-> ShippedCapabilities, details |-> Raise]
    /\ v_destination = [capabilities |-> ShippedCapabilities]
    /\ v_out = None

\* no stream is open and no earlier sync is on record
SessionIdle ==
    /\ events = <<>>
    /\ previous = None

\* the sync variables while no sync is running
SyncIdle ==
    /\ pc = "idle"
    /\ options = NoOptions
    /\ source = NoSource
    /\ answers = <<>>
    /\ dest_playlists = {}
    /\ sync_result = SyncResult("", "", 0, "create")
    /\ source_tracks = <<>>
    /\ destination_playlist = None
    /\ playlist_name = None
    /\ results = <<>>
    /\ batch_i = 0
    /\ batch_results = <<>>
    /\ calls = <<>>
    /\ progress = <<>>
    /\ raised = None
    /\ now = 0

(***************************************************************************)
(* Specification of one match_track call                                   *)
(***************************************************************************)
InitMatch ==
    /\ m_source \in MatchSources
    /\ m_dest \in MatchDests
    /\ m_out = None
    /\ SyncIdle
    /\ SessionIdle
    /\ ValidateIdle

\* await track_matcher.match_track(source_track)
MatchTrack ==
    /\ m_out = None
    /\ m_out' = Some(match_track(m_source, m_dest))
    /\ UNCHANGED <<m_source, m_dest>>
    /\ UNCHANGED syncVars
    /\ UNCHANGED validateVars
    /\ UNCHANGED sessionVars

NextMatch == MatchTrack

SpecMatch == InitMatch /\ [][NextMatch]_vars

\* one match_track call on a recording with two releases
InitIsrc ==
    /\ m_source \in IsrcSources
    /\ m_dest \in IsrcDests
    /\ m_out = None
    /\ SyncIdle
    /\ SessionIdle
    /\ ValidateIdle

SpecIsrc == InitIsrc /\ [][NextMatch]_vars

(***************************************************************************)
(* Source and destination services as seen by sync_playlist                *)
(***************************************************************************)
MaxTracks == 2
MaxElapsed == 1
FirstClock == 1
batch_size == 15

Playlist(id, name, track_count) ==
    [id |-> id, name |-> name, track_count |-> track_count]

SourceServiceName == "Spotify"
DestinationServiceName == "Apple Music"
SourcePlaylistId == "src-1"
SourceName == <<"Mix">>
OverrideName == <<"Mine">>

\* f"{original_name} (from {self.source_service.service_name})"
NameWithSuffix(name, service_name) == name \o <<" (from ", service_name, ")">>

\* a destination playlist with its tracks, as the destination service holds it
Stored(id, name, tracks) == [id |-> id, name |-> name, tracks |-> tracks]

\* the Playlist object the destination service builds for a stored playlist
PlaylistOf(stored) == Playlist(stored.id, stored.name, Len(stored.tracks))

RECURSIVE SeqOfLen(_, _)
SeqOfLen(S, n) ==
    IF n = 0 THEN {<<>>}
    ELSE {Append(q, x) : q \in SeqOfLen(S, n - 1), x \in S}

SeqUpTo(S, n) == UNION {SeqOfLen(S, k) : k \in 0..n}

\* destination answers used for the tracks of a playlist
AnswersIsrc ==
    Dest(TRUE, List(<<DstComp, DstHi>>), List(<<DstFuzzy>>),
         [q \in 1..4 |-> List(<<>>)])
AnswersExact ==
    Dest(TRUE, OneTrack(DstHi), List(<<DstFuzzy, DstExact>>),
         [q \in 1..4 |-> List(<<DstLow>>)])
AnswersFuzzy ==
    Dest(FALSE, NoneAnswer, Raise, [q \in 1..4 |-> List(<<DstEdge, DstFuzzy>>)])
AnswersNothing ==
    Dest(TRUE, Raise, Raise, [q \in 1..4 |-> Raise])

\* a source track together with the destination's answers for it
Entry(track, dest) == [track |-> track, dest |-> dest]
SourceEntries ==
    {Entry(SrcA, AnswersIsrc), Entry(SrcB, AnswersFuzzy),
     Entry(SrcC, AnswersIsrc), Entry(SrcC, AnswersNothing)}

SourceOf(entries) ==
    [service_name |-> SourceServiceName,
     playlist |-> Some(Playlist(SourcePlaylistId, SourceName, Len(entries))),
     tracks |-> [k \in 1..Len(entries) |-> entries[k].track]]

OptionSets ==
    [sync_mode : {None, Some("update")},
     playlist_name : {None, Some(OverrideName)},
     update_existing : BOOLEAN,
     on_progress : BOOLEAN]

DestinationStates ==
    {{},
     {Stored("p1", SourceName, <<DstExact>>)},
     {Stored("p2", NameWithSuffix(SourceName, SourceServiceName), <<DstEdge>>)},
     {Stored("p3", OverrideName, <<>>)},
     {Stored("p4", NameWithSuffix(OverrideName, SourceServiceName),
             <<DstExact, DstEdge>>)},
     {Stored("p1", SourceName, <<DstFuzzy>>),
      Stored("p2", NameWithSuffix(SourceName, SourceServiceName), <<>>)}}

TrackById(id) == CHOOSE t \in Catalog : t.id = id

\* find_playlist_by_name: the user's playlist of that name, if any
find_playlist_by_name(playlists, name) ==
    IF \E p \in playlists : p.name = name
    THEN Some(PlaylistOf(CHOOSE p \in playlists : p.name = name))
    ELSE None

\* get_playlist_tracks of the destination service
get_playlist_tracks(playlists, id) ==
    (CHOOSE p \in playlists : p.id = id).tracks

\* create_playlist: a new playlist holding the tracks of track_ids
NewPlaylistId == "p-new"
create_playlist(playlists, name, track_ids) ==
    playlists \cup
        {Stored(NewPlaylistId, name,
                [k \in 1..Len(track_ids) |-> TrackById(track_ids[k])])}

\* add_tracks_to_playlist: the tracks of track_ids appended to the playlist
add_tracks_to_playlist(playlists, id, track_ids) ==
    {IF p.id = id
     THEN [p EXCEPT !.tracks = @ \o [k \in 1..Len(track_ids) |-> TrackById(track_ids[k])]]
     ELSE p : p \in playlists}

StoredById(playlists, id) == CHOOSE p \in playlists : p.id = id

\* the match variables while no single match_track call is under study
MatchIdle ==
    /\ m_source = SrcA
    /\ m_dest = AnswersNothing
    /\ m_out = None

(***************************************************************************)
(* sync_playlist                                                           *)
(***************************************************************************)
Init ==
    /\ MatchIdle
    /\ ValidateIdle
    /\ SessionIdle
    /\ pc = "start"
    /\ options \in OptionSets
    /\ \E entries \in SeqUpTo(SourceEntries, MaxTracks) :
          /\ source = SourceOf(entries)
          /\ answers = [k \in 1..Len(entries) |-> entries[k].dest]
    /\ dest_playlists \in DestinationStates
    /\ sync_result = SyncResult("", "", 0, "create")
    /\ source_tracks = <<>>
    /\ destination_playlist = None
    /\ playlist_name = None
    /\ results = <<>>
    /\ batch_i = 0
    /\ batch_results = <<>>
    /\ calls = <<>>
    /\ progress = <<>>
    /\ raised = None
    /\ now = FirstClock

\* int(time.time() * 1000) at the end of the sync: a reading not before the
\* previous one
ClockReadings == now..(now + MaxElapsed)

\* variant: the handler re-raises without recording the error
HandleError_NotRecorded(error, t) ==
    /\ sync_result' = [sync_result EXCEPT
                         !.end_time = Some(t),
                         !.duration = Some(t - sync_result.start_time)]
    /\ now' = t
    /\ raised' = Some(error)
    /\ pc' = "raised"

\* except Exception as error: record, finalize, re-raise (lines 189-194)
HandleError(error, t) ==
    /\ sync_result' = [sync_result EXCEPT
                         !.errors = Append(@, error),
                         !.end_time = Some(t),
                         !.duration = Some(t - sync_result.start_time)]
    /\ now' = t
    /\ raised' = Some(error)
    /\ pc' = "raised"

\* lines 52-63: build the SyncResult
Start ==
    /\ pc = "start"
    /\ sync_result' =
          SyncResult(source.service_name, DestinationServiceName, now,
                     IF options.sync_mode = None THEN "create"
                     ELSE options.sync_mode[1])
    /\ pc' = "details"
    /\ UNCHANGED <<options, source, answers, dest_playlists, source_tracks,
                   destination_playlist, playlist_name, results, batch_i,
                   batch_results, calls, progress, raised, now>>
    /\ UNCHANGED matchVars
    /\ UNCHANGED validateVars
    /\ UNCHANGED sessionVars

SourceCall(op) == Call("source", op, <<SourcePlaylistId>>, <<>>)

\* line 66: source_service.get_playlist_details
GetPlaylistDetails ==
    /\ pc = "details"
    /\ calls' = Append(calls, SourceCall("get_playlist_details"))
    /\ \/ /\ sync_result' = [sync_result EXCEPT !.source_playlist = source.playlist]
          /\ pc' = "tracks"
          /\ UNCHANGED <<now, raised>>
       \/ \E t \in ClockReadings : HandleError("Failed to get playlist details", t)
    /\ UNCHANGED <<options, source, answers, dest_playlists, source_tracks,
                   destination_playlist, playlist_name, results, batch_i,
                   batch_results, progress>>
    /\ UNCHANGED matchVars
    /\ UNCHANGED validateVars
    /\ UNCHANGED sessionVars

\* variant: the early return for an empty source playlist is missing
GetPlaylistTracks_NoEarlyReturn ==
    /\ pc = "tracks"
    /\ calls' = Append(calls, SourceCall("get_playlist_tracks"))
    /\ \/ /\ source_tracks' = source.tracks
          /\ sync_result' = [sync_result EXCEPT !.total_tracks = Len(source.tracks)]
          /\ playlist_name' = options.playlist_name
          /\ pc' = "resolve"
          /\ UNCHANGED <<now, raised>>
       \/ /\ \E t \in ClockReadings : HandleError("Failed to get playlist tracks", t)
          /\ UNCHANGED <<source_tracks, playlist_name>>
    /\ UNCHANGED <<options, source, answers, dest_playlists,
                   destination_playlist, results, batch_i,
                   batch_results, progress>>
    /\ UNCHANGED matchVars
    /\ UNCHANGED validateVars
    /\ UNCHANGED sessionVars

\* lines 70-77: source_service.get_playlist_tracks and the early return
GetPlaylistTracks ==
    /\ pc = "tracks"
    /\ calls' = Append(calls, SourceCall("get_playlist_tracks"))
    /\ \/ /\ source.tracks # <<>>
          /\ source_tracks' = source.tracks
          /\ sync_result' = [sync_result EXCEPT !.total_tracks = Len(source.tracks)]
          /\ playlist_name' = options.playlist_name
          /\ pc' = "resolve"
          /\ UNCHANGED <<now, raised>>
       \/ /\ source.tracks = <<>>
          /\ source_tracks' = source.tracks
          /\ \E t \in ClockReadings :
                /\ now' = t
                /\ sync_result' = [sync_result EXCEPT !.total_tracks = 0,
                                                      !.end_time = Some(t)]
          /\ pc' = "returned"
          /\ UNCHANGED <<playlist_name, raised>>
       \/ /\ \E t \in ClockReadings : HandleError("Failed to get playlist tracks", t)
          /\ UNCHANGED <<source_tracks, playlist_name>>
    /\ UNCHANGED <<options, source, answers, dest_playlists,
                   destination_playlist, results, batch_i,
                   batch_results, progress>>
    /\ UNCHANGED matchVars
    /\ UNCHANGED validateVars
    /\ UNCHANGED sessionVars

\* variant: the lookup ignores the playlist_name option
original_name_of_source ==
    sync_result.source_playlist[1].name

\* original_name = playlist_name or sync_result.source_playlist.name
original_name ==
    IF options.playlist_name # None THEN options.playlist_name[1]
    ELSE sync_result.source_playlist[1].name

FindCall(name) == Call("destination", "find_playlist_by_name", name, <<>>)

\* lines 83-91: update_existing, first lookup
FindByName ==
    /\ pc = "resolve"
    /\ options.update_existing
    /\ calls' = Append(calls, FindCall(original_name))
    /\ \/ /\ LET found == find_playlist_by_name(dest_playlists, original_name)
             IN  IF found # None
                 THEN /\ destination_playlist' = found
                      /\ playlist_name' = Some(found[1].name)
                      /\ sync_result' = [sync_result EXCEPT !.sync_mode = "update"]
                      /\ pc' = "match"
                 ELSE /\ pc' = "suffix"
                      /\ UNCHANGED <<destination_playlist, playlist_name, sync_result>>
          /\ UNCHANGED <<now, raised>>
       \/ /\ \E t \in ClockReadings : HandleError("Failed to find playlist by name", t)
          /\ UNCHANGED <<destination_playlist, playlist_name>>
    /\ UNCHANGED <<options, source, answers, dest_playlists, source_tracks,
                   results, batch_i, batch_results, progress>>
    /\ UNCHANGED matchVars
    /\ UNCHANGED validateVars
    /\ UNCHANGED sessionVars

\* lines 92-104: update_existing, second lookup with the service suffix
FindWithSuffix ==
    /\ pc = "suffix"
    /\ LET name_with_suffix == NameWithSuffix(original_name, source.service_name)
       IN  /\ calls' = Append(calls, FindCall(name_with_suffix))
           /\ \/ /\ LET found == find_playlist_by_name(dest_playlists, name_with_suffix)
                    IN  IF found # None
                        THEN /\ destination_playlist' = found
                             /\ playlist_name' = Some(found[1].name)
                             /\ sync_result' = [sync_result EXCEPT !.sync_mode = "update"]
                        ELSE /\ destination_playlist' = None
                             /\ playlist_name' = Some(original_name)
                             /\ sync_result' = [sync_result EXCEPT !.sync_mode = "create"]
                 /\ pc' = "match"
                 /\ UNCHANGED <<now, raised>>
              \/ /\ \E t \in ClockReadings :
                       HandleError("Failed to find playlist by name", t)
                 /\ UNCHANGED <<destination_playlist, playlist_name>>
    /\ UNCHANGED <<options, source, answers, dest_playlists, source_tracks,
                   results, batch_i, batch_results, progress>>
    /\ UNCHANGED matchVars
    /\ UNCHANGED validateVars
    /\ UNCHANGED sessionVars

\* lines 105-107: no update_existing, the name for the new playlist
UseCreateName ==
    /\ pc = "resolve"
    /\ ~options.update_existing
    /\ playlist_name' =
          IF options.playlist_name # None THEN options.playlist_name
          ELSE Some(NameWithSuffix(sync_result.source_playlist[1].name,
                                   source.service_name))
    /\ pc' = "match"
    /\ UNCHANGED <<options, source, answers, dest_playlists, sync_result,
                   source_tracks, destination_playlist, results, batch_i,
                   batch_results, calls, progress, raised, now>>
    /\ UNCHANGED matchVars
    /\ UNCHANGED validateVars
    /\ UNCHANGED sessionVars

(***************************************************************************)
(* match_all_tracks                                                        *)
(***************************************************************************)
\* Python round(): nearest integer, ties to even, of 100 * num / den
RoundPercent(num, den) ==
    LET q == (100 * num) \div den
        r == (100 * num) % den
    IN  IF 2 * r > den THEN q + 1
        ELSE IF 2 * r < den THEN q
        ELSE IF q % 2 = 0 THEN q ELSE q + 1

\* variant: a batch takes up to twice batch_size tracks
BatchLen_Double == Min(2 * batch_size, Len(source_tracks) - batch_i)

\* len(source_tracks[i:i + batch_size])
BatchLen == Min(batch_size, Len(source_tracks) - batch_i)

\* lines 203-217: batch = source_tracks[i:i + batch_size]; gather launches
\* one match operation per track of the batch
StartBatch ==
    /\ pc = "match"
    /\ batch_i < Len(source_tracks)
    /\ batch_results' = <<>>
    /\ pc' = "gather"
    /\ UNCHANGED <<options, source, answers, dest_playlists, sync_result,
                   source_tracks, destination_playlist, playlist_name, results,
                   batch_i, calls, progress, raised, now>>
    /\ UNCHANGED matchVars
    /\ UNCHANGED validateVars
    /\ UNCHANGED sessionVars

\* lines 207-214: one match operation of the batch runs; match_track has no
\* await in it, so it runs to completion in one step.  batch_results logs
\* the finished operations, [task, result], in the order they finish.
RunTask(k) ==
    /\ pc = "gather"
    /\ k \in 1..BatchLen
    /\ \A j \in 1..Len(batch_results) : batch_results[j].task # k
    /\ LET out == match_track(source_tracks[batch_i + k], answers[batch_i + k])
       IN  /\ calls' = calls \o out.calls
           /\ IF out.raised
              THEN /\ \E t \in ClockReadings : HandleError("match_track failed", t)
                   /\ UNCHANGED batch_results
              ELSE /\ batch_results' =
                         Append(batch_results, [task |-> k, result |-> out.value[1]])
                   /\ UNCHANGED <<sync_result, now, raised, pc>>
    /\ UNCHANGED <<options, source, answers, dest_playlists, source_tracks,
                   destination_playlist, playlist_name, results, batch_i,
                   progress>>
    /\ UNCHANGED matchVars
    /\ UNCHANGED validateVars
    /\ UNCHANGED sessionVars

\* asyncio.gather returns the results in the order of its awaitables
Gathered ==
    [k \in 1..BatchLen |->
        (CHOOSE j \in 1..Len(batch_results) : batch_results[j].task = k)]

\* variant: the results are taken in the order the operations finished
FinishBatch_AsCompleted ==
    /\ pc = "gather"
    /\ Len(batch_results) = BatchLen
    /\ LET extended ==
               results \o [j \in 1..BatchLen |-> batch_results[j].result]
       IN  /\ results' = extended
           /\ progress' =
                 IF options.on_progress
                 THEN Append(progress,
                        [progress |-> RoundPercent(Len(extended), Len(source_tracks)),
                         current |-> Len(extended),
                         total |-> Len(source_tracks)])
                 ELSE progress
    /\ batch_results' = <<>>
    /\ pc' = "cooldown"
    /\ UNCHANGED <<options, source, answers, dest_playlists, sync_result,
                   source_tracks, destination_playlist, playlist_name,
                   batch_i, calls, raised, now>>
    /\ UNCHANGED matchVars
    /\ UNCHANGED validateVars
    /\ UNCHANGED sessionVars

\* variant: on_progress reports the size of the batch, not the running total
FinishBatch_BatchCount ==
    /\ pc = "gather"
    /\ Len(batch_results) = BatchLen
    /\ results' = results \o [k \in 1..BatchLen |-> batch_results[Gathered[k]].result]
    /\ progress' =
          IF options.on_progress
          THEN Append(progress,
                 [progress |-> RoundPercent(BatchLen, Len(source_tracks)),
                  current |-> BatchLen,
                  total |-> Len(source_tracks)])
          ELSE progress
    /\ batch_results' = <<>>
    /\ pc' = "cooldown"
    /\ UNCHANGED <<options, source, answers, dest_playlists, sync_result,
                   source_tracks, destination_playlist, playlist_name,
                   batch_i, calls, raised, now>>
    /\ UNCHANGED matchVars
    /\ UNCHANGED validateVars
    /\ UNCHANGED sessionVars

\* lines 217-224: gather returns, results.extend, on_progress
FinishBatch ==
    /\ pc = "gather"
    /\ Len(batch_results) = BatchLen
    /\ LET extended ==
               results \o [k \in 1..BatchLen |-> batch_results[Gathered[k]].result]
       IN  /\ results' = extended
           /\ progress' =
                 IF options.on_progress
                 THEN Append(progress,
                        [progress |-> RoundPercent(Len(extended), Len(source_tracks)),
                         current |-> Len(extended),
                         total |-> Len(source_tracks)])
                 ELSE progress
    /\ batch_results' = <<>>
    /\ pc' = "cooldown"
    /\ UNCHANGED <<options, source, answers, dest_playlists, sync_result,
                   source_tracks, destination_playlist, playlist_name,
                   batch_i, calls, raised, now>>
    /\ UNCHANGED matchVars
    /\ UNCHANGED validateVars
    /\ UNCHANGED sessionVars

\* line 227 and the loop step: await rate_limit_delay(); i += batch_size
Cooldown ==
    /\ pc = "cooldown"
    /\ batch_i' = batch_i + batch_size
    /\ pc' = "match"
    /\ UNCHANGED <<options, source, answers, dest_playlists, sync_result,
                   source_tracks, destination_playlist, playlist_name, results,
                   batch_results, calls, progress, raised, now>>
    /\ UNCHANGED matchVars
    /\ UNCHANGED validateVars
    /\ UNCHANGED sessionVars

(***************************************************************************)
(* sync_playlist: aggregation and write-back                               *)
(***************************************************************************)
HasTrack(result) == result.destination_track # None

\* matched_results: the results that have a destination track, in order
matched_results(match_results) == SelectSeq(match_results, HasTrack)

\* matched_track_ids: their destination track IDs
matched_track_ids(match_results) ==
    LET matched == matched_results(match_results)
    IN  [k \in 1..Len(matched) |-> matched[k].destination_track[1].id]

\* variant: a descriptor is appended for every result
unmatched_tracks_of_all(match_results) ==
    [k \in 1..Len(match_results) |->
        [name |-> match_results[k].source_track.name,
         artist |-> match_results[k].source_track.artist,
         album |-> match_results[k].source_track.album]]

\* unmatched_tracks: a descriptor per result without a destination track
NoTrack(result) == ~HasTrack(result)
unmatched_tracks(match_results) ==
    LET unmatched == SelectSeq(match_results, NoTrack)
    IN  [k \in 1..Len(unmatched) |->
            [name |-> unmatched[k].source_track.name,
             artist |-> unmatched[k].source_track.artist,
             album |-> unmatched[k].source_track.album]]

\* lines 138-141
existing_track_signatures(existing_tracks) ==
    {signature(existing_tracks[k]) : k \in 1..Len(existing_tracks)}

\* variant: every matched ID counts as new
new_track_ids_unfiltered(ids, matched, signatures, i) == ids

\* lines 144-156: filter matched_track_ids by the signature of the source track
RECURSIVE new_track_ids(_, _, _, _)
new_track_ids(ids, matched, signatures, i) ==
    IF i > Len(ids) THEN <<>>
    ELSE LET rest == new_track_ids(ids, matched, signatures, i + 1)
         IN  IF i <= Len(matched)
             THEN (IF signature(matched[i].source_track) \notin signatures
                   THEN <<ids[i]>> \o rest
                   ELSE rest)
             ELSE <<ids[i]>> \o rest

\* lines 183-184: end_time and duration on the normal path
Finalize(result, t) ==
    [result EXCEPT !.end_time = Some(t),
                   !.duration = Some(t - result.start_time)]

\* lines 229-230 and 112-130: match_all_tracks returns; collect the matched
\* IDs and the unmatched descriptors
Aggregate ==
    /\ pc = "match"
    /\ batch_i >= Len(source_tracks)
    /\ sync_result' =
          [sync_result EXCEPT
              !.matched_tracks = Len(matched_results(results)),
              !.unmatched_tracks = unmatched_tracks(results)]
    /\ pc' = IF matched_track_ids(results) = <<>> THEN "nothing"
             ELSE IF destination_playlist # None /\ sync_result.sync_mode = "update"
                  THEN "update"
                  ELSE "create"
    /\ UNCHANGED <<options, source, answers, dest_playlists, source_tracks,
                   destination_playlist, playlist_name, results, batch_i,
                   batch_results, calls, progress, raised, now>>
    /\ UNCHANGED matchVars
    /\ UNCHANGED validateVars
    /\ UNCHANGED sessionVars

GetTracksCall(id) == Call("destination", "get_playlist_tracks", <<id>>, <<>>)
\* variant: the tracks are added to another playlist than the one found
AddTracksCall_NewPlaylist(id, ids) ==
    Call("destination", "add_tracks_to_playlist", <<NewPlaylistId>>, ids)

AddTracksCall(id, ids) == Call("destination", "add_tracks_to_playlist", <<id>>, ids)
\* variant: create_playlist is called without the matched IDs
CreateCall_NoIds(name, ids) == Call("destination", "create_playlist", name, <<>>)

CreateCall(name, ids) == Call("destination", "create_playlist", name, ids)

\* lines 131-169 and 183-187: update the existing playlist with the new tracks
UpdatePlaylist ==
    /\ pc = "update"
    /\ LET id == destination_playlist[1].id
           existing_tracks == get_playlist_tracks(dest_playlists, id)
           ids == new_track_ids(matched_track_ids(results), matched_results(results),
                                existing_track_signatures(existing_tracks), 1)
       IN  \/ \* get_playlist_tracks raises
              /\ calls' = Append(calls, GetTracksCall(id))
              /\ \E t \in ClockReadings : HandleError("Failed to get playlist tracks", t)
              /\ UNCHANGED dest_playlists
           \/ \* add_tracks_to_playlist raises
              /\ ids # <<>>
              /\ calls' = calls \o <<GetTracksCall(id), AddTracksCall(id, ids)>>
              /\ \E t \in ClockReadings :
                    HandleError("Failed to add tracks to playlist", t)
              /\ UNCHANGED dest_playlists
           \/ \* the new tracks are added
              /\ ids # <<>>
              /\ calls' = calls \o <<GetTracksCall(id), AddTracksCall(id, ids)>>
              /\ dest_playlists' = add_tracks_to_playlist(dest_playlists, id, ids)
              /\ \E t \in ClockReadings :
                    /\ now' = t
                    /\ sync_result' =
                          Finalize([sync_result EXCEPT
                                      !.destination_playlist =
                                          Some(PlaylistOf(StoredById(dest_playlists', id))),
                                      !.matched_tracks = Len(ids)], t)
              /\ pc' = "returned"
              /\ UNCHANGED raised
           \/ \* all tracks already exist in the playlist
              /\ ids = <<>>
              /\ calls' = Append(calls, GetTracksCall(id))
              /\ \E t \in ClockReadings :
                    /\ now' = t
                    /\ sync_result' =
                          Finalize([sync_result EXCEPT
                                      !.destination_playlist = destination_playlist,
                                      !.matched_tracks = 0], t)
              /\ pc' = "returned"
              /\ UNCHANGED <<raised, dest_playlists>>
    /\ UNCHANGED <<options, source, answers, source_tracks,
                   destination_playlist, playlist_name, results, batch_i,
                   batch_results, progress>>
    /\ UNCHANGED matchVars
    /\ UNCHANGED validateVars
    /\ UNCHANGED sessionVars

\* lines 170-179 and 183-187: create the destination playlist
CreatePlaylist ==
    /\ pc = "create"
    /\ LET ids == matched_track_ids(results)
           name == playlist_name[1]
       IN  /\ calls' = Append(calls, CreateCall(name, ids))
           /\ \/ /\ dest_playlists' = create_playlist(dest_playlists, name, ids)
                 /\ \E t \in ClockReadings :
                       /\ now' = t
                       /\ sync_result' =
                             Finalize([sync_result EXCEPT
                                         !.destination_playlist =
                                             Some(Playlist(NewPlaylistId, name, Len(ids)))],
                                      t)
                 /\ pc' = "returned"
                 /\ UNCHANGED raised
              \/ /\ \E t \in ClockReadings : HandleError("Failed to create playlist", t)
                 /\ UNCHANGED dest_playlists
    /\ UNCHANGED <<options, source, answers, source_tracks,
                   destination_playlist, playlist_name, results, batch_i,
                   batch_results, progress>>
    /\ UNCHANGED matchVars
    /\ UNCHANGED validateVars
    /\ UNCHANGED sessionVars

\* lines 180-187: no matched tracks to sync
NothingToWrite ==
    /\ pc = "nothing"
    /\ \E t \in ClockReadings :
          /\ now' = t
          /\ sync_result' = Finalize(sync_result, t)
    /\ pc' = "returned"
    /\ UNCHANGED <<options, source, answers, dest_playlists, source_tracks,
                   destination_playlist, playlist_name, results, batch_i,
                   batch_results, calls, progress, raised>>
    /\ UNCHANGED matchVars
    /\ UNCHANGED validateVars
    /\ UNCHANGED sessionVars

Next ==
    \/ Start
    \/ GetPlaylistDetails
    \/ GetPlaylistTracks
    \/ FindByName
    \/ FindWithSuffix
    \/ UseCreateName
    \/ StartBatch
    \/ \E k \in 1..batch_size : RunTask(k)
    \/ FinishBatch
    \/ Cooldown
    \/ Aggregate
    \/ UpdatePlaylist
    \/ CreatePlaylist
    \/ NothingToWrite

Spec == Init /\ [][Next]_vars

\* sync_playlist called without a progress callback: aggregation and
\* write-back (lines 112-181) do not read on_progress
InitWriteBack ==
    /\ Init
    /\ ~options.on_progress

SpecWriteBack == InitWriteBack /\ [][Next]_vars

(***************************************************************************)
(* match_all_tracks on playlists of several batches.  The event loop       *)
(* starts the match operations of a gather in the order they were given,   *)
(* and each runs to completion: RunNextTask is RunTask in that order.      *)
(***************************************************************************)
MaxBatchTracks == 46

LongPattern ==
    <<Entry(SrcA, AnswersIsrc), Entry(SrcB, AnswersFuzzy), Entry(SrcC, AnswersNothing),
      Entry(SrcB, AnswersExact)>>

LongEntries(n) == [k \in 1..n |-> LongPattern[((k - 1) % Len(LongPattern)) + 1]]

\* the state of sync_playlist at line 110, about to await match_all_tracks
InitBatch ==
    /\ MatchIdle
    /\ ValidateIdle
    /\ SessionIdle
    /\ pc = "match"
    /\ options \in [sync_mode : {None}, playlist_name : {None},
                    update_existing : {FALSE}, on_progress : BOOLEAN]
    /\ \E n \in 1..MaxBatchTracks :
          /\ source = SourceOf(LongEntries(n))
          /\ answers = [k \in 1..n |-> LongEntries(n)[k].dest]
          /\ source_tracks = source.tracks
          /\ sync_result =
                [SyncResult(SourceServiceName, DestinationServiceName, FirstClock, "create")
                    EXCEPT !.source_playlist = source.playlist,
                           !.total_tracks = n]
    /\ dest_playlists = {}
    /\ destination_playlist = None
    /\ playlist_name = Some(NameWithSuffix(SourceName, SourceServiceName))
    /\ results = <<>>
    /\ batch_i = 0
    /\ batch_results = <<>>
    /\ calls = <<SourceCall("get_playlist_details"), SourceCall("get_playlist_tracks")>>
    /\ progress = <<>>
    /\ raised = None
    /\ now = FirstClock

RunNextTask ==
    RunTask(Len(batch_results) + 1)

NextBatch ==
    \/ StartBatch
    \/ RunNextTask
    \/ FinishBatch
    \/ Cooldown

SpecBatch == InitBatch /\ [][NextBatch]_vars

(***************************************************************************)
(* _clean_track_name and _clean_artist_name on titles and artist credits   *)
(* made of up to MaxTokens pieces                                          *)
(***************************************************************************)
MaxTokens == 3

TitleTokens ==
    {<<"x">>, <<" ">>, <<" ", " ">>, <<"(">>, <<")">>, <<"[">>, <<"]">>, <<"-">>,
     <<"r", "a", "d", "i", "o">>, <<"e", "d", "i", "t">>, <<"L", "i", "v", "e">>,
     <<"1", "9", "9", "9">>, <<"r", "e", "m", "a", "s", "t", "e", "r">>}

ArtistTokens ==
    {<<"x">>, <<" ">>, <<"T", "h", "e">>, <<"T", "h", "e", " ">>,
     <<"f", "t", ".">>, <<"w", "i", "t", "h">>, <<"f", "e", "a", "t", ".">>}

RECURSIVE Concat(_)
Concat(parts) == IF parts = <<>> THEN <<>> ELSE Head(parts) \o Concat(Tail(parts))

TitleInputs == {Concat(parts) : parts \in SeqUpTo(TitleTokens, MaxTokens)}
ArtistInputs == {Concat(parts) : parts \in SeqUpTo(ArtistTokens, MaxTokens)}

CleanSources ==
    {SrcTrack("s5", name, <<"x">>, "", 0, "") : name \in TitleInputs}
    \cup {SrcTrack("s5", <<"x">>, artist, "", 0, "") : artist \in ArtistInputs}

InitClean ==
    /\ m_source \in CleanSources
    /\ m_dest = AnswersNothing
    /\ m_out = None
    /\ SyncIdle
    /\ SessionIdle
    /\ ValidateIdle

\* lines 164-165 and 194, 197: the source track's name and artist are cleaned
CleanNames ==
    /\ m_out = None
    /\ m_out' = Some([cleaned_name |-> _clean_track_name(m_source.name),
                      cleaned_artist |-> _clean_artist_name(m_source.artist)])
    /\ UNCHANGED <<m_source, m_dest>>
    /\ UNCHANGED syncVars
    /\ UNCHANGED validateVars
    /\ UNCHANGED sessionVars

NextClean == CleanNames

SpecClean == InitClean /\ [][NextClean]_vars

(***************************************************************************)
(* _calculate_confidence on one candidate of the exact search, for every   *)
(* combination of the factors it looks at                                  *)
(***************************************************************************)
RatioSamples == {0, 60, 100}
TokenRatioSamples == {0, 90}
AlbumRatioSamples == {0, 50, 95}

ScoredCandidates ==
    {Release("d8", <<"A">>, <<"Q">>, album, atype, dur, Sim(n, nt, a, at, al)) :
        album \in {"", "Opera", "2011 Hits"}, atype \in {"album", "compilation"},
        dur \in {0, 200000, 204000},
        n \in RatioSamples, nt \in TokenRatioSamples,
        a \in RatioSamples, at \in TokenRatioSamples, al \in AlbumRatioSamples}

ScoredSources ==
    {SrcTrack("s6", <<"A">>, <<"Q">>, album, dur, "") :
        album \in {"", "Opera"}, dur \in {0, 200000}}

InitScore ==
    /\ m_source \in ScoredSources
    /\ \E candidate \in ScoredCandidates :
          m_dest = Dest(FALSE, NoneAnswer, List(<<candidate>>),
                        [q \in 1..4 |-> List(<<>>)])
    /\ m_out = None
    /\ SyncIdle
    /\ SessionIdle
    /\ ValidateIdle

\* line 151: score = self._calculate_confidence(source_track, track)
ScoreCandidate ==
    /\ m_out = None
    /\ m_out' = Some(_calculate_confidence(m_source, m_dest.exact.items[1]))
    /\ UNCHANGED <<m_source, m_dest>>
    /\ UNCHANGED syncVars
    /\ UNCHANGED validateVars
    /\ UNCHANGED sessionVars

NextScore == ScoreCandidate

SpecScore == InitScore /\ [][NextScore]_vars

(***************************************************************************)
(* get_sync_capabilities and validate_sync                                 *)
(***************************************************************************)
\* min(a.get(key, float('inf')), b.get(key, float('inf'))); None is infinity
MinLimit(a, b) ==
    IF a = None THEN b
    ELSE IF b = None THEN a
    ELSE Some(Min(a[1], b[1]))

\* capabilities.get("batchSize", 100)
BatchSizeOf(capabilities) ==
    IF capabilities.batchSize = None THEN 100 ELSE capabilities.batchSize[1]

\* variant: playlists can be created only if both services can create them
get_sync_capabilities_both_create(source_capabilities, destination_capabilities) ==
    [can_sync |-> source_capabilities.canRead /\ destination_capabilities.canWrite,
     can_create_playlists |->
         source_capabilities.canCreatePlaylists
         /\ destination_capabilities.canCreatePlaylists,
     supports_isrc |->
         source_capabilities.supportsISRC /\ destination_capabilities.supportsISRC,
     max_playlist_tracks |->
         MinLimit(source_capabilities.maxPlaylistTracks,
                  destination_capabilities.maxPlaylistTracks),
     batch_size |->
         Min(BatchSizeOf(source_capabilities), BatchSizeOf(destination_capabilities)),
     source_service |->
         [name |-> SourceServiceName, capabilities |-> source_capabilities],
     destination_service |->
         [name |-> DestinationServiceName, capabilities |-> destination_capabilities]]

\* the dict get_sync_capabilities builds from the two capability dicts
get_sync_capabilities(source_capabilities, destination_capabilities) ==
    [can_sync |-> source_capabilities.canRead /\ destination_capabilities.canWrite,
     can_create_playlists |-> destination_capabilities.canCreatePlaylists,
     supports_isrc |->
         source_capabilities.supportsISRC /\ destination_capabilities.supportsISRC,
     max_playlist_tracks |->
         MinLimit(source_capabilities.maxPlaylistTracks,
                  destination_capabilities.maxPlaylistTracks),
     batch_size |->
         Min(BatchSizeOf(source_capabilities), BatchSizeOf(destination_capabilities)),
     source_service |->
         [name |-> SourceServiceName, capabilities |-> source_capabilities],
     destination_service |->
         [name |-> DestinationServiceName, capabilities |-> destination_capabilities]]

\* the dict validate_sync returns
Validation(valid, error, source_playlist, capabilities) ==
    [valid |-> valid, error |-> error, source_playlist |-> source_playlist,
     capabilities |-> capabilities]

Invalid(error) == Validation(FALSE, Some(error), None, None)

\* track_count > capabilities["max_playlist_tracks"]
OverLimit(track_count, limit) == limit # None /\ track_count > limit[1]

\* variant: the track count is not compared with the limit
validate_sync_no_limit(source_service, destination_service) ==
    IF source_service.details.kind = "raise"
    THEN Invalid("Failed to get playlist details")
    ELSE IF source_service.details.kind = "none"
    THEN Invalid("Source playlist not found")
    ELSE IF source_service.capabilities.raises
            \/ destination_service.capabilities.raises
    THEN Invalid("Failed to get capabilities")
    ELSE LET source_playlist == source_service.details.items[1]
             capabilities == get_sync_capabilities(source_service.capabilities,
                                                   destination_service.capabilities)
         IN  IF ~capabilities.can_sync
             THEN Invalid("Sync not supported between these services")
             ELSE Validation(TRUE, None, Some(source_playlist), Some(capabilities))

\* validate_sync: the try block, and str(error) of whatever it raises
validate_sync(source_service, destination_service) ==
    IF source_service.details.kind = "raise"
    THEN Invalid("Failed to get playlist details")
    ELSE IF source_service.details.kind = "none"
    THEN Invalid("Source playlist not found")
    ELSE IF source_service.capabilities.raises
            \/ destination_service.capabilities.raises
    THEN Invalid("Failed to get capabilities")
    ELSE LET source_playlist == source_service.details.items[1]
             capabilities == get_sync_capabilities(source_service.capabilities,
                                                   destination_service.capabilities)
         IN  IF ~capabilities.can_sync
             THEN Invalid("Sync not supported between these services")
             ELSE IF OverLimit(source_playlist.track_count,
                               capabilities.max_playlist_tracks)
             THEN Invalid("Playlist has more tracks than the destination supports")
             ELSE Validation(TRUE, None, Some(source_playlist), Some(capabilities))

SourceCapabilitySets ==
    {Capabilities(FALSE, r, w, c, i, m, b) :
        r \in BOOLEAN, w \in BOOLEAN, c \in BOOLEAN, i \in BOOLEAN,
        m \in {None, Some(2)}, b \in {None, Some(50)}}
    \cup {Capabilities(TRUE, TRUE, TRUE, TRUE, TRUE, None, None)}

DestinationCapabilitySets ==
    {Capabilities(FALSE, r, w, c, i, m, b) :
        r \in BOOLEAN, w \in BOOLEAN, c \in BOOLEAN, i \in BOOLEAN,
        m \in {None, Some(1), Some(3)}, b \in {Some(20), Some(150)}}
    \cup {Capabilities(TRUE, TRUE, TRUE, TRUE, TRUE, None, None)}

\* get_playlist_details: raises, returns nothing, or returns the Playlist
Details(playlist) == [kind |-> "playlist", items |-> <<playlist>>]

DetailsAnswers ==
    {Raise, NoneAnswer}
    \cup {Details(Playlist(SourcePlaylistId, SourceName, n)) : n \in 0..4}

InitValidate ==
    /\ MatchIdle
    /\ SyncIdle
    /\ SessionIdle
    /\ v_source \in [capabilities : SourceCapabilitySets, details : DetailsAnswers]
    /\ v_destination \in [capabilities : DestinationCapabilitySets]
    /\ v_out = None

\* outcome of a call: the value returned, or that the call raised
Outcome(op, call_raised, value) == [op |-> op, raised |-> call_raised, value |-> value]

\* lines 252-277: a get_capabilities that raises is not caught here
GetSyncCapabilities ==
    /\ v_out = None
    /\ v_out' =
          IF v_source.capabilities.raises \/ v_destination.capabilities.raises
          THEN Some(Outcome("get_sync_capabilities", TRUE, None))
          ELSE Some(Outcome("get_sync_capabilities", FALSE,
                            Some(get_sync_capabilities(v_source.capabilities,
                                                       v_destination.capabilities))))
    /\ UNCHANGED <<v_source, v_destination>>
    /\ UNCHANGED matchVars
    /\ UNCHANGED syncVars
    /\ UNCHANGED sessionVars

\* lines 279-301
ValidateSync ==
    /\ v_out = None
    /\ v_out' = Some(Outcome("validate_sync", FALSE,
                             Some(validate_sync(v_source, v_destination))))
    /\ UNCHANGED <<v_source, v_destination>>
    /\ UNCHANGED matchVars
    /\ UNCHANGED syncVars
    /\ UNCHANGED sessionVars

NextValidate ==
    \/ GetSyncCapabilities
    \/ ValidateSync

SpecValidate == InitValidate /\ [][NextValidate]_vars

(***************************************************************************)
(* stream_sync_progress (app/routes/sync.py): the sync as a stream of      *)
(* server-sent events                                                      *)
(***************************************************************************)
\* send_event(event_type, data)
send_event(event_type, data) == [event |-> event_type, data |-> data]

\* the request body carries no callable: options arrive without on_progress
StreamOptionSets == {o \in OptionSets : ~o.on_progress}

InitStream ==
    /\ MatchIdle
    /\ ValidateIdle
    /\ SessionIdle
    /\ pc = "stream"
    /\ options \in StreamOptionSets
    /\ \E entries \in SeqUpTo(SourceEntries, MaxTracks) :
          /\ source = SourceOf(entries)
          /\ answers = [k \in 1..Len(entries) |-> entries[k].dest]
    /\ dest_playlists \in DestinationStates
    /\ sync_result = SyncResult("", "", 0, "create")
    /\ source_tracks = <<>>
    /\ destination_playlist = None
    /\ playlist_name = None
    /\ results = <<>>
    /\ batch_i = 0
    /\ batch_results = <<>>
    /\ calls = <<>>
    /\ progress = <<>>
    /\ raised = None
    /\ now = FirstClock

\* lines 20-43: yield the start event, install the on_progress callback (a
\* lambda that does nothing) and call sync_playlist
StreamStart ==
    /\ pc = "stream"
    /\ events' = Append(events,
                        send_event("start",
                                   [sourceService |-> source.service_name,
                                    destinationService |-> DestinationServiceName]))
    /\ options' = [options EXCEPT !.on_progress = TRUE]
    /\ pc' = "start"
    /\ UNCHANGED <<source, answers, dest_playlists, sync_result, source_tracks,
                   destination_playlist, playlist_name, results, batch_i,
                   batch_results, calls, progress, raised, now>>
    /\ UNCHANGED previous
    /\ UNCHANGED matchVars
    /\ UNCHANGED validateVars

\* lines 43-59: sync_playlist returned, yield the complete event
StreamComplete ==
    /\ pc = "returned"
    /\ events' = Append(events,
                        send_event("complete",
                                   [success |-> TRUE,
                                    totalTracks |-> sync_result.total_tracks,
                                    matchedTracks |-> sync_result.matched_tracks,
                                    unmatchedTracks |-> sync_result.unmatched_tracks,
                                    syncMode |-> sync_result.sync_mode]))
    /\ pc' = "closed"
    /\ UNCHANGED <<options, source, answers, dest_playlists, sync_result,
                   source_tracks, destination_playlist, playlist_name, results,
                   batch_i, batch_results, calls, progress, raised, now>>
    /\ UNCHANGED previous
    /\ UNCHANGED matchVars
    /\ UNCHANGED validateVars

\* lines 61-68: sync_playlist raised, yield the error event
StreamError ==
    /\ pc = "raised"
    /\ events' = Append(events,
                        send_event("error",
                                   [success |-> FALSE, error |-> raised[1]]))
    /\ pc' = "closed"
    /\ UNCHANGED <<options, source, answers, dest_playlists, sync_result,
                   source_tracks, destination_playlist, playlist_name, results,
                   batch_i, batch_results, calls, progress, raised, now>>
    /\ UNCHANGED previous
    /\ UNCHANGED matchVars
    /\ UNCHANGED validateVars

NextStream ==
    \/ StreamStart
    \/ Next
    \/ StreamComplete
    \/ StreamError

SpecStream == InitStream /\ [][NextStream]_vars

(***************************************************************************)
(* sync_playlist called a second time with update_existing: the same       *)
(* source playlist, the same options, the same destination answers, and    *)
(* the destination playlists as the first call left them                   *)
(***************************************************************************)
RerunOptionSets == {o \in OptionSets : o.update_existing /\ ~o.on_progress}

InitRerun ==
    /\ MatchIdle
    /\ ValidateIdle
    /\ SessionIdle
    /\ pc = "start"
    /\ options \in RerunOptionSets
    /\ \E entries \in SeqUpTo(SourceEntries, MaxTracks) :
          /\ source = SourceOf(entries)
          /\ answers = [k \in 1..Len(entries) |-> entries[k].dest]
    /\ dest_playlists \in DestinationStates
    /\ sync_result = SyncResult("", "", 0, "create")
    /\ source_tracks = <<>>
    /\ destination_playlist = None
    /\ playlist_name = None
    /\ results = <<>>
    /\ batch_i = 0
    /\ batch_results = <<>>
    /\ calls = <<>>
    /\ progress = <<>>
    /\ raised = None
    /\ now = FirstClock

\* the first call has returned; sync_playlist is called again: its locals
\* and its SyncResult are new, the services keep their state
Rerun ==
    /\ pc = "returned"
    /\ previous = None
    /\ previous' = Some([sync_result |-> sync_result, calls |-> calls])
    /\ pc' = "start"
    /\ sync_result' = SyncResult("", "", 0, "create")
    /\ source_tracks' = <<>>
    /\ destination_playlist' = None
    /\ playlist_name' = None
    /\ results' = <<>>
    /\ batch_i' = 0
    /\ batch_results' = <<>>
    /\ calls' = <<>>
    /\ progress' = <<>>
    /\ UNCHANGED <<options, source, answers, dest_playlists, raised, now>>
    /\ UNCHANGED events
    /\ UNCHANGED matchVars
    /\ UNCHANGED validateVars

NextRerun ==
    \/ Start
    \/ GetPlaylistDetails
    \/ GetPlaylistTracks
    \/ FindByName
    \/ FindWithSuffix
    \/ StartBatch
    \/ \E k \in 1..batch_size : RunTask(k)
    \/ FinishBatch
    \/ Cooldown
    \/ Aggregate
    \/ UpdatePlaylist
    \/ CreatePlaylist
    \/ NothingToWrite
    \/ Rerun

SpecRerun == InitRerun /\ [][NextRerun]_vars

(***************************************************************************)
(* Properties of match_track (SpecMatch)                                   *)
(***************************************************************************)
MatchDone == m_out # None /\ ~m_out[1].raised /\ m_out[1].value # None
MatchValue == m_out[1].value[1]
MatchCalls == m_out[1].calls

IsIsrcCall(c) == c.op = "search_by_isrc"
IsExactCall(c) == c.op = "search_track" /\ c.arg[2] = "10"
IsFuzzyCall(c) == c.op = "search_track" /\ c.arg[2] = "20"

\* C1: every MatchResult returned by match_track has match_method None
\* iff its destination track is absent iff its confidence is 0.
C1_MethodTrackConfidence ==
    MatchDone =>
        /\ (MatchValue.match_method = "None") <=> (MatchValue.destination_track = None)
        /\ (MatchValue.destination_track = None) <=> (MatchValue.match_confidence = 0)

\* a no-match result although the exact and the fuzzy searches had candidates
C1_Witness ==
    /\ MatchDone
    /\ MatchValue.destination_track = None
    /\ m_dest.exact.items # <<>>
    /\ m_dest.fuzzy[1].items # <<>>

Barren(answer) == answer.kind # "list" \/ answer.items = <<>>

\* C7: match_track never raises because of the destination service: whatever
\* search_by_isrc and search_track do (raise, return nothing), match_track
\* returns a MatchResult, and a no-match result when every search is barren.
C7_NeverRaises ==
    m_out # None =>
        /\ ~m_out[1].raised
        /\ m_out[1].value # None
        /\ (Barren(m_dest.isrc) /\ Barren(m_dest.exact)
            /\ \A q \in 1..4 : Barren(m_dest.fuzzy[q]))
           => /\ MatchValue.destination_track = None
              /\ MatchValue.match_method = "None"

\* the ISRC lookup, the exact search and the first fuzzy search all raise
C7_Witness ==
    /\ m_out # None
    /\ m_source.isrc # ""
    /\ m_dest.has_search_by_isrc
    /\ m_dest.isrc.kind = "raise"
    /\ m_dest.exact.kind = "raise"
    /\ m_dest.fuzzy[1].kind = "raise"
    /\ IsIsrcCall(MatchCalls[1])
    /\ Len(MatchCalls) = 3

IsrcAccepts ==
    m_source.isrc # "" /\ _match_by_isrc(m_source, m_dest).value # None
ExactAccepts ==
    LET exact == _match_by_exact_search(m_source, m_dest)
    IN  exact.value # None
        /\ _calculate_confidence(m_source, exact.value[1]) >= exact_threshold
FuzzyAccepts ==
    LET fuzzy == _match_by_fuzzy_search(m_source, m_dest)
    IN  fuzzy.value # None
        /\ _calculate_confidence(m_source, fuzzy.value[1]) >= fuzzy_threshold

\* C10: match_track tries ISRC, exact, fuzzy in this order and stops at the
\* first strategy that accepts: the exact search is issued only if the ISRC
\* strategy produced no match, the fuzzy searches only if the exact strategy
\* did not accept, and the method is that of the first accepting strategy.
C10_StrategyOrder ==
    MatchDone =>
        /\ \A i, j \in 1..Len(MatchCalls) :
              i < j => /\ ~IsIsrcCall(MatchCalls[j])
                       /\ ~(IsFuzzyCall(MatchCalls[i]) /\ IsExactCall(MatchCalls[j]))
        /\ (\E i \in 1..Len(MatchCalls) : IsExactCall(MatchCalls[i])) <=> ~IsrcAccepts
        /\ (\E i \in 1..Len(MatchCalls) : IsFuzzyCall(MatchCalls[i]))
              <=> (~IsrcAccepts /\ ~ExactAccepts)
        /\ (MatchValue.match_method = "isrc") <=> IsrcAccepts
        /\ (MatchValue.match_method = "exact") <=> (~IsrcAccepts /\ ExactAccepts)
        /\ (MatchValue.match_method = "fuzzy")
              <=> (~IsrcAccepts /\ ~ExactAccepts /\ FuzzyAccepts)

\* all three strategies were tried and the third accepted
C10_Witness ==
    /\ MatchDone
    /\ MatchValue.match_method = "fuzzy"
    /\ Len(MatchCalls) = 6
    /\ IsIsrcCall(MatchCalls[1])
    /\ IsExactCall(MatchCalls[2])
    /\ m_dest.exact.items # <<>>

(***************************************************************************)
(* Properties of sync_playlist (Spec) and match_all_tracks (SpecBatch)     *)
(***************************************************************************)
IsDestinationCall(c) == c.svc = "destination"
IsAddCall(c) == c.svc = "destination" /\ c.op = "add_tracks_to_playlist"
IsCreateCall(c) == c.svc = "destination" /\ c.op = "create_playlist"
CallsWhere(P(_)) == {i \in 1..Len(calls) : P(calls[i])}

\* C2: with an empty source track list sync_playlist returns total_tracks 0,
\* matched_tracks 0, no unmatched track, and never calls the destination.
C2_EmptySource ==
    source.tracks = <<>> =>
        /\ CallsWhere(IsDestinationCall) = {}
        /\ pc \notin {"resolve", "suffix", "match", "gather", "cooldown",
                      "update", "create", "nothing"}
        /\ pc = "returned" =>
              /\ sync_result.total_tracks = 0
              /\ sync_result.matched_tracks = 0
              /\ sync_result.unmatched_tracks = <<>>
              /\ raised = None

\* an empty playlist was synced with update_existing set
C2_Witness ==
    /\ pc = "returned"
    /\ source.tracks = <<>>
    /\ options.update_existing
    /\ dest_playlists # {}
    /\ Len(calls) = 2

\* the signature as the claim words it
ClaimSignature(track) ==
    strip(lower(track.name)) \o <<" ", "-", " ">> \o strip(lower(track.artist))

\* the matched results whose source signature no track of `existing` has
Surviving(existing) ==
    LET Keeps(r) ==
            /\ r.destination_track # None
            /\ \A j \in 1..Len(existing) :
                  ClaimSignature(existing[j]) # ClaimSignature(r.source_track)
        kept == SelectSeq(results, Keeps)
    IN  [k \in 1..Len(kept) |-> kept[k].destination_track[1].id]

\* C3: the ID list passed to add_tracks_to_playlist holds exactly the IDs of
\* the matched tracks whose source signature is not the signature of a track
\* already in the destination playlist, whatever ID the matcher selected.
C3_UpdateDedup ==
    [][(Len(calls') > Len(calls) /\ IsAddCall(calls'[Len(calls')]))
        => calls'[Len(calls')].ids =
              Surviving(get_playlist_tracks(dest_playlists,
                                            calls'[Len(calls')].arg[1]))]_vars

\* tracks were added, and a matched track was left out although no track of
\* the destination playlist has the ID the matcher selected for it
C3_Witness ==
    /\ pc = "returned"
    /\ CallsWhere(IsAddCall) # {}
    /\ \E i \in 1..Len(results) :
          /\ results[i].destination_track # None
          /\ LET stored == StoredById(dest_playlists, destination_playlist[1].id)
             IN  \A j \in 1..Len(stored.tracks) :
                    stored.tracks[j].id # results[i].destination_track[1].id

\* number of track IDs handed to add_tracks_to_playlist during the sync
AddedCount ==
    IF CallsWhere(IsAddCall) = {} THEN 0
    ELSE Len(calls[CHOOSE i \in CallsWhere(IsAddCall) : TRUE].ids)

\* C4: a sync that completes in update mode with at least one matched track
\* reports matched_tracks = number of IDs passed to add_tracks_to_playlist;
\* in create mode matched_tracks = number of tracks matched.
C4_MatchedCount ==
    (pc = "returned" /\ matched_results(results) # <<>>) =>
        /\ sync_result.sync_mode = "update" => sync_result.matched_tracks = AddedCount
        /\ sync_result.sync_mode = "create" =>
              sync_result.matched_tracks = Len(matched_results(results))

CeilDiv(a, b) == (a + b - 1) \div b
LoopDone == pc = "match" /\ batch_i >= Len(source_tracks)

\* C5: for N > 0 tracks match_all_tracks runs ceil(N/15) batches of 15 tracks
\* (the last possibly shorter) and invokes on_progress once after each; the
\* k-th invocation reports current = min(15k, N) and total = N, percentages
\* never decrease, and the last reports current = total and 100 percent.
C5_BatchesAndProgress ==
    LET N == Len(source_tracks)
    IN  options.on_progress =>
          /\ batch_i % 15 = 0
          /\ pc = "gather" => BatchLen = (IF N - batch_i >= 15 THEN 15 ELSE N - batch_i)
          /\ Len(progress) = CeilDiv(Len(results), 15)
          /\ \A k \in 1..Len(progress) :
                /\ progress[k].current = Min(15 * k, N)
                /\ progress[k].total = N
                /\ k > 1 => progress[k - 1].progress <= progress[k].progress
          /\ LoopDone =>
                /\ Len(progress) = CeilDiv(N, 15)
                /\ progress[Len(progress)].current = N
                /\ progress[Len(progress)].progress = 100

\* 40 tracks were matched in three batches, the last one of 10 tracks
C5_Witness ==
    /\ LoopDone
    /\ options.on_progress
    /\ Len(source_tracks) = 40
    /\ Len(progress) = 3
    /\ progress[2].current = 30

\* the MatchResult of the i-th source track
ResultOf(i) == match_track(source_tracks[i], answers[i]).value[1]

\* the source positions, ascending, whose MatchResult has / has no track
RECURSIVE PositionsWhere(_, _)
PositionsWhere(P(_), i) ==
    IF i > Len(source_tracks) THEN <<>>
    ELSE (IF P(i) THEN <<i>> ELSE <<>>) \o PositionsWhere(P, i + 1)

MatchedAt(i) == ResultOf(i).destination_track # None
UnmatchedAt(i) == ResultOf(i).destination_track = None

\* s is t with some elements left out, order kept
RECURSIVE IsSubsequence(_, _)
IsSubsequence(s, t) ==
    IF s = <<>> THEN TRUE
    ELSE IF t = <<>> THEN FALSE
    ELSE IF Head(s) = Head(t) THEN IsSubsequence(Tail(s), Tail(t))
    ELSE IsSubsequence(s, Tail(t))

MatchedIdsInSourceOrder ==
    LET at == PositionsWhere(MatchedAt, 1)
    IN  [k \in 1..Len(at) |-> ResultOf(at[k]).destination_track[1].id]

UnmatchedInSourceOrder ==
    LET at == PositionsWhere(UnmatchedAt, 1)
    IN  [k \in 1..Len(at) |->
            [name |-> source_tracks[at[k]].name,
             artist |-> source_tracks[at[k]].artist,
             album |-> source_tracks[at[k]].album]]

\* C6: in whatever order the match operations of a batch finish, the i-th
\* element of the list match_all_tracks builds is the MatchResult of the i-th
\* source track, and the IDs handed to the destination and the unmatched
\* list of the SyncResult are in source-playlist order.
C6_SourceOrder ==
    /\ \A i \in 1..Len(results) : results[i] = ResultOf(i)
    /\ \A i \in CallsWhere(IsCreateCall) : calls[i].ids = MatchedIdsInSourceOrder
    /\ \A i \in CallsWhere(IsAddCall) :
          IsSubsequence(calls[i].ids, MatchedIdsInSourceOrder)
    /\ pc \in {"update", "create", "nothing", "returned"} /\ source_tracks # <<>>
          => sync_result.unmatched_tracks = UnmatchedInSourceOrder

\* Position in `calls` of the first search issued for source position i
FirstSearchFor(i) ==
    CHOOSE n \in 1..Len(calls) :
        /\ calls[n].op \in {"search_by_isrc", "search_track"}
        /\ calls[n].arg[3] = source_tracks[i].id
        /\ \A m \in 1..(n - 1) :
              ~(calls[m].op \in {"search_by_isrc", "search_track"}
                /\ calls[m].arg[3] = source_tracks[i].id)

\* the second track was matched before the first; the first is matched, the
\* second is not, and the sync wrote the playlist
C6_Witness ==
    /\ pc = "returned"
    /\ Len(results) = 2
    /\ source_tracks[1].id # source_tracks[2].id
    /\ FirstSearchFor(2) < FirstSearchFor(1)
    /\ results[1].destination_track # None
    /\ results[2].destination_track = None
    /\ CallsWhere(IsCreateCall) # {}

\* the message of the exception a collaborator operation raises
MessageOf(c) ==
    CASE c.op = "get_playlist_details" -> "Failed to get playlist details"
      [] c.op = "get_playlist_tracks" -> "Failed to get playlist tracks"
      [] c.op = "find_playlist_by_name" -> "Failed to find playlist by name"
      [] c.op = "create_playlist" -> "Failed to create playlist"
      [] c.op = "add_tracks_to_playlist" -> "Failed to add tracks to playlist"
      [] OTHER -> "match_track failed"

\* C8: when a collaborator call made by sync_playlist fails, its message is
\* in the SyncResult's error list exactly once, the same error is re-raised,
\* the failed call was issued once, and no further call follows it.
C8_FatalErrors ==
    [][/\ raised' # None =>
            /\ pc' = "raised"
            /\ calls' # <<>>
            /\ raised'[1] = MessageOf(calls'[Len(calls')])
            /\ sync_result'.errors = <<raised'[1]>>
            /\ \A i \in 1..(Len(calls') - 1) : calls'[i] # calls'[Len(calls')]
       /\ raised' = None => (sync_result'.errors = <<>> /\ pc' # "raised")
       /\ raised # None => UNCHANGED <<calls, dest_playlists, sync_result, raised>>
      ]_vars

\* add_tracks_to_playlist failed after the lookup and the matching succeeded
C8_Witness ==
    /\ pc = "raised"
    /\ IsAddCall(calls[Len(calls)])
    /\ raised = Some("Failed to add tracks to playlist")
    /\ results # <<>>

\* C9: whenever sync_playlist terminates, by returning (the empty-source
\* return included) or by raising, the SyncResult has its end time and its
\* duration set, and duration = end time - start time.
C9_EndTimeAndDuration ==
    pc \in {"returned", "raised"} =>
        /\ sync_result.end_time # None
        /\ sync_result.duration # None
        /\ sync_result.duration[1] = sync_result.end_time[1] - sync_result.start_time

(***************************************************************************)
(* The ISRC strategy (SpecMatch)                                           *)
(***************************************************************************)
\* the by-ISRC lookup was made for the source track and handed back at least
\* one candidate, as a list of tracks or as one Track object
IsrcLookupFinds ==
    /\ m_source.isrc # ""
    /\ m_dest.has_search_by_isrc
    /\ m_dest.isrc.kind \in {"list", "track"}
    /\ m_dest.isrc.items # <<>>

\* C11: when the source track has an ISRC and the by-ISRC lookup returns at
\* least one candidate, match_track returns method isrc, with confidence 95
\* if the album similarity of the selected candidate is at most 80 and 100
\* if it exceeds 80; method isrc never carries another confidence.
C11_IsrcConfidence ==
    m_out # None =>
        /\ IsrcLookupFinds =>
              /\ MatchDone
              /\ MatchValue.match_method = "isrc"
              /\ MatchValue.match_confidence =
                    (IF MatchValue.destination_track[1].sim.album > 80
                     THEN 1000 ELSE 950)
        /\ (MatchDone /\ MatchValue.match_method = "isrc") =>
              MatchValue.match_confidence \in {950, 1000}

IsGreatestHits(c) == c.album = "Greatest Hits" /\ c.album_type = "compilation"
IsNightAtTheOpera(c) ==
    c.album = "A Night at the Opera" /\ c.album_type = "album"

\* the by-ISRC lookup returned the two releases, in one order or the other
TwoReleases ==
    /\ m_source.isrc # ""
    /\ m_dest.has_search_by_isrc
    /\ m_dest.isrc.kind = "list"
    /\ Len(m_dest.isrc.items) = 2
    /\ \E i, j \in 1..2 :
          /\ IsGreatestHits(m_dest.isrc.items[i])
          /\ IsNightAtTheOpera(m_dest.isrc.items[j])

\* C12: when the by-ISRC lookup returns the compilation "Greatest Hits" and
\* the album "A Night at the Opera", in either order, the compilation scores
\* at most 0, the album at least 20, and the ISRC strategy selects the
\* album, whatever the source album title and the durations.
C12_AlbumOverCompilation ==
    TwoReleases =>
        /\ \A k \in 1..2 :
              LET c == m_dest.isrc.items[k]
              IN  /\ IsGreatestHits(c) => _score_isrc_candidate(m_source, c) <= 0
                  /\ IsNightAtTheOpera(c) => _score_isrc_candidate(m_source, c) >= 200
        /\ _match_by_isrc(m_source, m_dest).value # None
        /\ IsNightAtTheOpera(_match_by_isrc(m_source, m_dest).value[1])
        /\ m_out # None =>
              /\ MatchDone
              /\ MatchValue.match_method = "isrc"
              /\ MatchValue.destination_track = _match_by_isrc(m_source, m_dest).value

\* the compilation comes first and has its best score (the source album is
\* "Greatest Hits" itself, same duration); the album has its worst
C12_Witness ==
    /\ m_out # None
    /\ TwoReleases
    /\ IsGreatestHits(m_dest.isrc.items[1])
    /\ _score_isrc_candidate(m_source, m_dest.isrc.items[1]) = 0
    /\ _score_isrc_candidate(m_source, m_dest.isrc.items[2]) = 200
    /\ MatchValue.destination_track[1].id = "n1"

(***************************************************************************)
(* Thresholds and the shared confidence function (SpecMatch)               *)
(***************************************************************************)
\* C13: a MatchResult with method exact has confidence at least 95, one with
\* method fuzzy at least 85, and the confidence is the shared-confidence
\* score of the returned candidate: no candidate scoring below the
\* strategy's threshold is returned as that strategy's match.
C13_Thresholds ==
    MatchDone =>
        /\ MatchValue.match_method = "exact" =>
              /\ MatchValue.match_confidence >= 950
              /\ MatchValue.match_confidence =
                    _calculate_confidence(m_source, MatchValue.destination_track[1])
        /\ MatchValue.match_method = "fuzzy" =>
              /\ MatchValue.match_confidence >= 850
              /\ MatchValue.match_confidence =
                    _calculate_confidence(m_source, MatchValue.destination_track[1])

\* the exact search found only a candidate scoring between the thresholds;
\* it was refused there and accepted by the fuzzy strategy
C13_Witness ==
    /\ MatchDone
    /\ MatchValue.match_method = "fuzzy"
    /\ m_dest.exact.kind = "list"
    /\ m_dest.exact.items # <<>>
    /\ \A k \in 1..Len(m_dest.exact.items) :
          LET score == _calculate_confidence(m_source, m_dest.exact.items[k])
          IN  score >= 850 /\ score < 950
    /\ \E q \in 1..4 : \E k \in 1..Len(m_dest.fuzzy[q].items) :
          _calculate_confidence(m_source, m_dest.fuzzy[q].items[k]) < 850

(***************************************************************************)
(* Cleaning (SpecClean)                                                    *)
(***************************************************************************)
\* C14: cleaning is idempotent: cleaning a cleaned title gives the cleaned
\* title, and cleaning a cleaned artist credit gives the cleaned credit.
C14_CleaningIdempotent ==
    m_out # None =>
        /\ _clean_track_name(m_out[1].cleaned_name) = m_out[1].cleaned_name
        /\ _clean_artist_name(m_out[1].cleaned_artist) = m_out[1].cleaned_artist

(***************************************************************************)
(* The shared confidence function (SpecScore)                              *)
(***************************************************************************)
\* the scored candidate with one of its similarity ratios replaced
WithRatio(candidate, field, r) == [candidate EXCEPT !.sim[field] = r]

\* C15: with durations, album titles and album type fixed, the confidence
\* never decreases when the title ratio or the artist ratio (plain or
\* token-sort, each in 0..100) is raised, and never increases when lowered.
C15_Monotone ==
    m_out # None =>
        LET candidate == m_dest.exact.items[1]
        IN  \A field \in {"name", "name_token", "artist", "artist_token"} :
              \A r \in 0..100 :
                LET other == _calculate_confidence(m_source,
                                                   WithRatio(candidate, field, r))
                IN  /\ r >= candidate.sim[field] => other >= m_out[1]
                    /\ r <= candidate.sim[field] => other <= m_out[1]

\* a candidate below the cap that reaches 100 when its title ratio is raised
C15_Witness ==
    /\ m_out # None
    /\ m_out[1] < 1000
    /\ m_dest.exact.items[1].sim.name = 60
    /\ m_dest.exact.items[1].sim.name_token = 0
    /\ _calculate_confidence(m_source,
                             WithRatio(m_dest.exact.items[1], "name", 100)) = 1000
    /\ _calculate_confidence(m_source,
                             WithRatio(m_dest.exact.items[1], "name", 99)) < 1000

(***************************************************************************)
(* Destination resolution (Spec)                                           *)
(***************************************************************************)
\* C16: once the SyncResult is built its sync_mode changes only from create
\* to update, only during destination resolution, and only when
\* update_existing is set and a destination playlist was found; it never
\* goes from update to create and never changes once matching has begun.
C16_SyncModeTransitions ==
    [][(pc # "start" /\ sync_result'.sync_mode # sync_result.sync_mode) =>
          /\ pc \in {"resolve", "suffix"}
          /\ sync_result.sync_mode = "create"
          /\ sync_result'.sync_mode = "update"
          /\ options.update_existing
          /\ destination_playlist' # None]_vars

IsFindCall(c) == c.svc = "destination" /\ c.op = "find_playlist_by_name"

\* C17: without update_existing no find_playlist_by_name call is made, the
\* returned SyncResult reports sync_mode create whatever mode the options
\* request, and the playlist is written under the playlist_name override or
\* else under "<source name> (from <source service name>)".
C17_CreateWhenNotUpdating ==
    ~options.update_existing =>
        /\ CallsWhere(IsFindCall) = {}
        /\ CallsWhere(IsAddCall) = {}
        /\ pc = "returned" => sync_result.sync_mode = "create"
        /\ \A i \in CallsWhere(IsCreateCall) :
              calls[i].arg =
                 (IF options.playlist_name # None THEN options.playlist_name[1]
                  ELSE source.playlist[1].name
                          \o <<" (from ", source.service_name, ")">>)

\* destination resolution is over and nothing was written yet
Resolved == pc \in {"match", "gather", "cooldown", "update", "create", "nothing"}

\* with update_existing set: the first lookup is by `name`, the second, made
\* only if the first found nothing, by `name` with the service suffix; a
\* playlist found by either becomes the target and the mode update,
\* otherwise the mode is create
LookupRule(name) ==
    LET finds == SelectSeq(calls, IsFindCall)
        suffixed == name \o <<" (from ", source.service_name, ")">>
        first == find_playlist_by_name(dest_playlists, name)
        second == find_playlist_by_name(dest_playlists, suffixed)
    IN  /\ Len(finds) <= 2
        /\ Len(finds) >= 1 => finds[1].arg = name
        /\ Len(finds) = 2 => finds[2].arg = suffixed
        /\ Resolved =>
              /\ Len(finds) = (IF first # None THEN 1 ELSE 2)
              /\ first # None =>
                    /\ destination_playlist = first
                    /\ sync_result.sync_mode = "update"
              /\ (first = None /\ second # None) =>
                    /\ destination_playlist = second
                    /\ sync_result.sync_mode = "update"
              /\ (first = None /\ second = None) =>
                    /\ destination_playlist = None
                    /\ sync_result.sync_mode = "create"

\* C18 as stated: with update_existing set the destination playlist is
\* looked up by the source playlist's literal name, also when a
\* playlist_name override is supplied, then by that name with the suffix.
C18_LookupBySourceName ==
    options.update_existing => LookupRule(source.playlist[1].name)

\* C18 amended: with update_existing set the destination playlist is looked
\* up by the playlist_name override when one is supplied and by the source
\* playlist's name otherwise, then by that name with the suffix; a playlist
\* found by either lookup is the target and the mode update, otherwise the
\* mode is create.
C18_LookupByRequestedName ==
    options.update_existing =>
        LookupRule(IF options.playlist_name # None THEN options.playlist_name[1]
                   ELSE source.playlist[1].name)

\* an override was supplied, no playlist has that name, and the playlist
\* named override-with-suffix was found by the second lookup
C18_Witness ==
    /\ Resolved
    /\ options.update_existing
    /\ options.playlist_name # None
    /\ Len(SelectSeq(calls, IsFindCall)) = 2
    /\ destination_playlist # None
    /\ sync_result.sync_mode = "update"

(***************************************************************************)
(* Capabilities and validation (SpecValidate)                              *)
(***************************************************************************)
CapabilitiesDone ==
    v_out # None /\ v_out[1].op = "get_sync_capabilities" /\ ~v_out[1].raised
Summary == v_out[1].value[1]

\* C19 as stated: the read, write and create-playlist flags of the summary
\* are each the AND of that flag over both services, ISRC support is the AND
\* of both, max_playlist_tracks and batch_size are the minimum of both.
C19_FlagsOfBothServices ==
    CapabilitiesDone =>
        LET s == v_source.capabilities
            d == v_destination.capabilities
        IN  /\ Summary.can_sync =
                  ((s.canRead /\ d.canRead) /\ (s.canWrite /\ d.canWrite))
            /\ Summary.can_create_playlists =
                  (s.canCreatePlaylists /\ d.canCreatePlaylists)
            /\ Summary.supports_isrc = (s.supportsISRC /\ d.supportsISRC)
            /\ (s.maxPlaylistTracks # None /\ d.maxPlaylistTracks # None) =>
                  Summary.max_playlist_tracks =
                      Some(Min(s.maxPlaylistTracks[1], d.maxPlaylistTracks[1]))
            /\ (s.batchSize # None /\ d.batchSize # None) =>
                  Summary.batch_size = Min(s.batchSize[1], d.batchSize[1])

\* C19 amended: can_sync is the source's read flag AND the destination's
\* write flag, can_create_playlists is the destination's create flag alone,
\* ISRC support is the AND of both services, max_playlist_tracks and
\* batch_size are the minimum of both (a missing limit counts as unlimited,
\* a missing batch size as 100).
C19_SourceReadsDestinationWrites ==
    CapabilitiesDone =>
        LET s == v_source.capabilities
            d == v_destination.capabilities
        IN  /\ Summary.can_sync = (s.canRead /\ d.canWrite)
            /\ Summary.can_create_playlists = d.canCreatePlaylists
            /\ Summary.supports_isrc = (s.supportsISRC /\ d.supportsISRC)
            /\ Summary.max_playlist_tracks =
                  (IF s.maxPlaylistTracks = None THEN d.maxPlaylistTracks
                   ELSE IF d.maxPlaylistTracks = None THEN s.maxPlaylistTracks
                   ELSE IF s.maxPlaylistTracks[1] <= d.maxPlaylistTracks[1]
                        THEN s.maxPlaylistTracks ELSE d.maxPlaylistTracks)
            /\ Summary.batch_size =
                  (LET sb == IF s.batchSize = None THEN 100 ELSE s.batchSize[1]
                       db == IF d.batchSize = None THEN 100 ELSE d.batchSize[1]
                   IN  IF sb <= db THEN sb ELSE db)

\* the source can neither write nor create playlists, the destination
\* cannot read, and the summary allows the sync and the creation
C19_Witness ==
    /\ CapabilitiesDone
    /\ ~v_source.capabilities.canWrite
    /\ ~v_source.capabilities.canCreatePlaylists
    /\ ~v_destination.capabilities.canRead
    /\ Summary.can_sync
    /\ Summary.can_create_playlists
    /\ Summary.max_playlist_tracks = Some(2)
    /\ Summary.batch_size = 100

ValidationDone == v_out # None /\ v_out[1].op = "validate_sync"

\* C20: validate_sync never raises.  It returns valid = true exactly when
\* the source playlist details were fetched, the capabilities permit the
\* sync (the source can be read, the destination written), and the track
\* count does not exceed the smaller of the two max-playlist-track limits;
\* in every other case, a raising collaborator included, it returns
\* valid = false with an error message.
C20_ValidateNeverRaises ==
    ValidationDone =>
        /\ ~v_out[1].raised
        /\ v_out[1].value # None
        /\ LET result == v_out[1].value[1]
               s == v_source.capabilities
               d == v_destination.capabilities
               fetched == v_source.details.kind = "playlist"
               answered == ~s.raises /\ ~d.raises
               within ==
                   /\ s.maxPlaylistTracks # None =>
                         v_source.details.items[1].track_count <= s.maxPlaylistTracks[1]
                   /\ d.maxPlaylistTracks # None =>
                         v_source.details.items[1].track_count <= d.maxPlaylistTracks[1]
           IN  /\ result.valid <=>
                     (fetched /\ answered /\ s.canRead /\ d.canWrite /\ within)
               /\ result.valid =>
                     /\ result.error = None
                     /\ result.source_playlist = Some(v_source.details.items[1])
               /\ ~result.valid =>
                     /\ result.error # None
                     /\ result.source_playlist = None

\* a readable playlist of three tracks, a source limit of two and a
\* destination limit of three: refused for its track count
C20_Witness ==
    /\ ValidationDone
    /\ v_source.details.kind = "playlist"
    /\ v_source.details.items[1].track_count = 3
    /\ v_source.capabilities.maxPlaylistTracks = Some(2)
    /\ v_destination.capabilities.maxPlaylistTracks = Some(3)
    /\ v_source.capabilities.canRead
    /\ v_destination.capabilities.canWrite
    /\ ~v_out[1].value[1].valid

(***************************************************************************)
(* The streamed sync (SpecStream)                                          *)
(***************************************************************************)
IsTerminal(e) == e.event \in {"complete", "error"}
IsProgress(e) == e.event = "progress"

\* the matching batches completed so far: results grows by one batch at a time
CompletedBatches == (Len(results) + batch_size - 1) \div batch_size

\* C21: a streamed sync emits one progress event per completed matching
\* batch, all before exactly one terminal event, which is complete when
\* sync_playlist returns and error when it raises; nothing follows the
\* terminal event.
C21_StreamEvents ==
    /\ \A k \in 1..Len(events) : IsTerminal(events[k]) => k = Len(events)
    /\ pc = "closed" =>
          /\ events # <<>>
          /\ events[Len(events)].event =
                (IF raised = None THEN "complete" ELSE "error")
    /\ pc \in {"cooldown", "closed"} =>
          Cardinality({k \in 1..Len(events) : IsProgress(events[k])})
              = CompletedBatches

(***************************************************************************)
(* Batches of match_all_tracks (SpecBatch)                                 *)
(***************************************************************************)
\* the match operations gather has launched and that have not finished
InFlight == IF pc = "gather" THEN BatchLen - Len(batch_results) ELSE 0

\* a step in which a match operation of the current batch runs
MatchOperationRuns == Len(batch_results') > Len(batch_results)

\* C22: batches run one after another: when a match operation of a batch
\* runs, every operation of the earlier batches has completed and its result
\* is gathered, the progress callback has been invoked once per earlier
\* batch, and the cooldown of every earlier batch is over (i has advanced by
\* batch_size per earlier batch); at most 15 operations are in flight.
C22_BatchesSequential ==
    [][/\ InFlight <= 15
       /\ InFlight' <= 15
       /\ MatchOperationRuns =>
             /\ pc = "gather"
             /\ batch_i % batch_size = 0
             /\ Len(results) = batch_i
             /\ options.on_progress => Len(progress) = batch_i \div batch_size
             /\ \A k \in 1..Len(progress) : progress[k].current = Min(k * batch_size, Len(source_tracks))]_vars

\* an operation of the second batch has run, after the first batch of 15
\* was gathered and reported
C22_Witness ==
    /\ pc = "gather"
    /\ batch_i = batch_size
    /\ Len(batch_results) >= 1
    /\ Len(results) = batch_size
    /\ Len(progress) = 1

(***************************************************************************)
(* Match operations of one batch (Spec)                                    *)
(***************************************************************************)
IsSearchCall(c) == c.op \in {"search_by_isrc", "search_track"}

\* the match operation for source position i has started: it has issued a
\* destination search.  Every operation issues one as its first action
\* (search_by_isrc or the exact search_track).
SearchIssuedFor(i) ==
    \E n \in 1..Len(calls) :
        IsSearchCall(calls[n]) /\ calls[n].arg[3] = source_tracks[i].id

DistinctTracksInBatch ==
    \A k, l \in 1..BatchLen :
        k # l => source_tracks[batch_i + k].id # source_tracks[batch_i + l].id

\* C23: within a batch of two or more tracks the match operations are all
\* launched before any of them completes: once one operation of the batch
\* has completed, every operation of the batch has started, its searches
\* outstanding alongside those of the others.
C23_LaunchedBeforeAnyCompletes ==
    (/\ pc = "gather"
     /\ BatchLen >= 2
     /\ DistinctTracksInBatch
     /\ Len(batch_results) >= 1)
        => \A k \in 1..BatchLen : SearchIssuedFor(batch_i + k)

(***************************************************************************)
(* A failing search inside the fuzzy strategy (SpecMatch)                  *)
(***************************************************************************)
\* the candidates of the query variants q.. whose search returned a list
RECURSIVE CandidatesOfAnsweredQueries(_)
CandidatesOfAnsweredQueries(q) ==
    IF q > Len(FuzzyQueries) THEN <<>>
    ELSE (IF m_dest.fuzzy[q].kind = "list" THEN m_dest.fuzzy[q].items ELSE <<>>)
         \o CandidatesOfAnsweredQueries(q + 1)

BestOfAnsweredQueries ==
    BestByConfidence(m_source, CandidatesOfAnsweredQueries(1), 1, NoBest)

SomeFuzzyQueryRaises == \E q \in 1..Len(FuzzyQueries) : m_dest.fuzzy[q].kind = "raise"

\* C24: in the fuzzy strategy a search that raises only loses its own
\* candidates: the candidates of the other query variants are still scored,
\* and the best of them is returned when its confidence is at least 85.
C24_FailingQuerySkipped ==
    (MatchDone /\ ~IsrcAccepts /\ ~ExactAccepts /\ SomeFuzzyQueryRaises) =>
        IF BestOfAnsweredQueries.score >= 850
        THEN /\ MatchValue.match_method = "fuzzy"
             /\ MatchValue.destination_track = BestOfAnsweredQueries.match
        ELSE MatchValue.destination_track = None

(***************************************************************************)
(* Write-back (SpecWriteBack, Spec)                                        *)
(***************************************************************************)
\* the name resolved for a new playlist: with update_existing and no
\* playlist found it is the looked-up name, otherwise the override or the
\* source name with the service suffix
ResolvedCreateName ==
    IF options.update_existing THEN original_name
    ELSE IF options.playlist_name # None THEN options.playlist_name[1]
    ELSE NameWithSuffix(sync_result.source_playlist[1].name, source.service_name)

CreatedThroughOneCall ==
    /\ Cardinality(CallsWhere(IsCreateCall)) = 1
    /\ \A i \in CallsWhere(IsCreateCall) :
          /\ calls[i].arg = ResolvedCreateName
          /\ calls[i].ids = MatchedIdsInSourceOrder
    /\ sync_result.destination_playlist =
          Some(Playlist(NewPlaylistId, ResolvedCreateName,
                        Len(MatchedIdsInSourceOrder)))
    /\ \E p \in dest_playlists :
          /\ p.id = NewPlaylistId
          /\ p.name = ResolvedCreateName
          /\ [k \in 1..Len(p.tracks) |-> p.tracks[k].id] = MatchedIdsInSourceOrder

\* C25: a sync of a non-empty source playlist that completes in create mode
\* has created a destination playlist through exactly one create_playlist
\* call carrying the resolved name and the full matched-ID list in source
\* order, and the SyncResult holds the created playlist.
C25_CreateModeCreates ==
    (pc = "returned" /\ source_tracks # <<>> /\ sync_result.sync_mode = "create")
        => CreatedThroughOneCall

\* C25, amended: the same for a sync in which at least one track was
\* matched; with no matched track no playlist is created, no write call is
\* made and the SyncResult has no destination playlist.
C25_CreateModeCreatesWhenMatched ==
    (pc = "returned" /\ source_tracks # <<>> /\ sync_result.sync_mode = "create")
        => IF MatchedIdsInSourceOrder # <<>>
           THEN CreatedThroughOneCall
           ELSE /\ CallsWhere(IsCreateCall) = {}
                /\ CallsWhere(IsAddCall) = {}
                /\ sync_result.destination_playlist = None

\* a create-mode sync of two tracks, one matched and one not, has returned
C25_Witness ==
    /\ pc = "returned"
    /\ sync_result.sync_mode = "create"
    /\ Len(source_tracks) = 2
    /\ Len(MatchedIdsInSourceOrder) = 1
    /\ Cardinality(CallsWhere(IsCreateCall)) = 1
    /\ sync_result.destination_playlist # None

\* the sync took the update branch: a destination playlist was found
InUpdateMode == destination_playlist # None /\ sync_result.sync_mode = "update"

\* the tracks of the found playlist, as the destination holds them
FoundPlaylistTracks ==
    StoredById(dest_playlists, destination_playlist[1].id).tracks

\* every matched track's source signature is the signature of a track of
\* the found playlist
AllMatchedAlreadyPresent ==
    \A i \in 1..Len(source_tracks) :
        MatchedAt(i) =>
            \E j \in 1..Len(FoundPlaylistTracks) :
                ClaimSignature(FoundPlaylistTracks[j]) = ClaimSignature(source_tracks[i])

\* a step that writes nothing to the destination
NoWriteAndUnchanged ==
    /\ \A n \in 1..Len(calls') : ~IsAddCall(calls'[n]) /\ ~IsCreateCall(calls'[n])
    /\ dest_playlists' = dest_playlists

\* the step in which an update-mode sync returns
UpdateModeReturns ==
    /\ pc \in {"update", "nothing"}
    /\ pc' = "returned"
    /\ InUpdateMode

\* C26: in update mode, when every matched track's source signature is
\* already present in the destination playlist, the sync makes no
\* add_tracks_to_playlist and no create_playlist call, the playlist's
\* contents are unchanged, and the result's destination playlist is the
\* playlist found during destination resolution.
C26_NothingSurvives ==
    [][(UpdateModeReturns /\ AllMatchedAlreadyPresent)
        => /\ NoWriteAndUnchanged
           /\ sync_result'.destination_playlist = destination_playlist]_vars

\* C26, amended: the result's destination playlist is the found playlist
\* when at least one track was matched; when no track was matched at all
\* the result has no destination playlist.
C26_NothingSurvivesOfMatched ==
    [][(UpdateModeReturns /\ AllMatchedAlreadyPresent)
        => /\ NoWriteAndUnchanged
           /\ sync_result'.matched_tracks = 0
           /\ sync_result'.destination_playlist =
                 (IF MatchedIdsInSourceOrder # <<>> THEN destination_playlist
                  ELSE None)]_vars

\* an update-mode sync matched a track whose signature the found playlist
\* already holds under another ID, and returned
C26_Witness ==
    /\ pc = "returned"
    /\ InUpdateMode
    /\ AllMatchedAlreadyPresent
    /\ MatchedIdsInSourceOrder # <<>>
    /\ \A j \in 1..Len(FoundPlaylistTracks) :
          FoundPlaylistTracks[j].id # MatchedIdsInSourceOrder[1]
    /\ CallsWhere(IsAddCall) = {}
    /\ sync_result.destination_playlist = destination_playlist

(***************************************************************************)
(* Aggregation (SpecWriteBack)                                             *)
(***************************************************************************)
Aggregated ==
    \/ pc \in {"nothing", "update", "create"}
    \/ pc = "returned" /\ source_tracks # <<>>

\* C27: aggregation partitions the source tracks: a track whose MatchResult
\* has a destination track contributes one ID to the matched-ID list, any
\* other track one descriptor to the unmatched list, never both and never
\* neither; when a create-mode sync returns,
\* matched_tracks + number of unmatched descriptors = total_tracks.
C27_Partition ==
    /\ Aggregated =>
          /\ Len(results) = Len(source_tracks)
          /\ Len(matched_track_ids(results))
                = Cardinality({i \in 1..Len(source_tracks) : MatchedAt(i)})
          /\ Len(sync_result.unmatched_tracks)
                = Cardinality({i \in 1..Len(source_tracks) : UnmatchedAt(i)})
          /\ Len(matched_track_ids(results)) + Len(sync_result.unmatched_tracks)
                = Len(source_tracks)
    /\ pc \in {"nothing", "update", "create"} =>
          sync_result.matched_tracks = Len(matched_track_ids(results))
    /\ (pc = "returned" /\ sync_result.sync_mode = "create") =>
          sync_result.matched_tracks + Len(sync_result.unmatched_tracks)
              = sync_result.total_tracks

\* a create-mode sync of two tracks returned with one track matched and one
\* descriptor in the unmatched list
C27_Witness ==
    /\ pc = "returned"
    /\ sync_result.sync_mode = "create"
    /\ sync_result.total_tracks = 2
    /\ sync_result.matched_tracks = 1
    /\ Len(sync_result.unmatched_tracks) = 1

(***************************************************************************)
(* The ISRC strategy with the shipped services (SpecMatch)                 *)
(***************************************************************************)
\* search_by_isrc of SpotifyService / AppleMusicService found a track: it
\* returns the Track object itself
ShippedLookupFinds ==
    /\ m_source.isrc # ""
    /\ m_dest.has_search_by_isrc
    /\ m_dest.isrc.kind = "track"

\* C28: with SpotifyService or AppleMusicService as the destination, a
\* source track with an ISRC for which search_by_isrc finds a track is
\* matched by the ISRC strategy: match_track returns that track with method
\* isrc and confidence 95 or 100, and issues no title/artist search.
C28_ShippedServicesMatchByIsrc ==
    (m_out # None /\ ShippedLookupFinds) =>
        /\ MatchDone
        /\ MatchValue.match_method = "isrc"
        /\ MatchValue.destination_track = Some(m_dest.isrc.items[1])
        /\ MatchValue.match_confidence \in {950, 1000}
        /\ MatchCalls = <<IsrcCall(m_source)>>

(***************************************************************************)
(* Destination writes of one sync (SpecWriteBack)                          *)
(***************************************************************************)
IsWriteCall(c) == IsAddCall(c) \/ IsCreateCall(c)

\* the call at position n looked a playlist up by name and found the one
\* with this id
FoundBy(n, id) ==
    /\ IsFindCall(calls[n])
    /\ \E p \in dest_playlists : p.id = id /\ p.name = calls[n].arg

\* C29: a sync makes at most one destination write call, one create_playlist
\* or one add_tracks_to_playlist; an add_tracks_to_playlist call targets the
\* playlist found during destination resolution; no write call is made
\* before all matching batches have completed.
C29_AtMostOneWrite ==
    /\ Cardinality(CallsWhere(IsWriteCall)) <= 1
    /\ \A i \in CallsWhere(IsAddCall) :
          /\ destination_playlist # None
          /\ calls[i].arg = <<destination_playlist[1].id>>
          /\ \E n \in 1..(i - 1) : FoundBy(n, calls[i].arg[1])
    /\ \A i \in CallsWhere(IsWriteCall) :
          /\ Len(results) = Len(source_tracks)
          /\ batch_i >= Len(source_tracks)
          /\ \A k \in 1..Len(source_tracks) : SearchIssuedFor(k)
          /\ \A n \in 1..Len(calls) : IsSearchCall(calls[n]) => n < i

\* tracks were added to the playlist that the lookup with the service
\* suffix found, after both tracks of the source were matched
C29_Witness ==
    /\ pc = "returned"
    /\ Len(source_tracks) = 2
    /\ Cardinality(CallsWhere(IsFindCall)) = 2
    /\ Cardinality(CallsWhere(IsAddCall)) = 1
    /\ \A i \in CallsWhere(IsAddCall) : Len(calls[i].ids) = 2

(***************************************************************************)
(* Running an update again (SpecRerun)                                     *)
(***************************************************************************)
\* the first sync added tracks to the playlist it found
FirstRunAdded ==
    /\ previous # None
    /\ \E n \in 1..Len(previous[1].calls) : IsAddCall(previous[1].calls[n])

\* C30: re-running an update-mode sync is idempotent on the destination:
\* after a sync with update_existing has added its matched tracks, the same
\* sync run again on the unchanged source, with the same matcher decisions,
\* adds no track and reports matched_tracks = 0.
C30_RerunAddsNothing ==
    (FirstRunAdded /\ pc = "returned") =>
        /\ CallsWhere(IsWriteCall) = {}
        /\ sync_result.matched_tracks = 0

====
